---------------------------- MODULE Spec2Model ----------------------------
(***************************************************************************)
(* Feedback Intel: the enrichment workflow (MyWorkflow.run), the sheet     *)
(* importer (importFromSheets) and the HTTP handlers that write the        *)
(* feedback table (POST /api/feedback, POST /api/clear).                   *)
(*                                                                         *)
(* Units.  Text is a TLA+ string.  A sentiment score is an integer number  *)
(* of hundredths, a provider confidence an integer number of thousandths,  *)
(* a priority score an integer number of tenths, a time a whole number of  *)
(* days.  A nullable column holds <<>> (NULL) or <<v>>.                    *)
(***************************************************************************)
EXTENDS Integers, Sequences, FiniteSets, TLC

\* ------------------------------------------------------------------------
\* Bounds of the model
\* ------------------------------------------------------------------------
MaxRuns == 1
MaxUpsets == 1
MaxDay == 2
MaxCrashes == 1
MaxImports == 2
NumImporters == 2

\* ------------------------------------------------------------------------
\* Constants of the program
\* ------------------------------------------------------------------------
NULL == <<>>
Some(v) == <<v>>

TierArrEnterprise == 50000
TierArrPro == 5000
TIER_ARR(tier) ==
  CASE tier = "enterprise" -> TierArrEnterprise
    [] tier = "pro" -> TierArrPro
    [] tier = "free" -> 0
    [] OTHER -> 0

TIER_WEIGHT(tier) ==
  CASE tier = "enterprise" -> 10
    [] tier = "pro" -> 5
    [] tier = "free" -> 1
    [] OTHER -> 1

\* a severity table whose default is the weight of low
SeverityWeightLowDefault(urgency) ==
  CASE urgency = "critical" -> 10
    [] urgency = "high" -> 7
    [] urgency = "medium" -> 4
    [] urgency = "low" -> 1
    [] OTHER -> 1

SEVERITY_WEIGHT(urgency) ==
  CASE urgency = "critical" -> 10
    [] urgency = "high" -> 7
    [] urgency = "medium" -> 4
    [] urgency = "low" -> 1
    [] OTHER -> 4

SENTIMENT_WEIGHT(sentiment) ==
  CASE sentiment = "negative" -> 10
    [] sentiment = "neutral" -> 5
    [] sentiment = "positive" -> 1
    [] OTHER -> 5

ThemeNames ==
  <<"documentation", "reliability", "performance", "dx",
    "pricing", "features", "support", "security">>

THEME_KEYWORDS(theme) ==
  CASE theme = "documentation" ->
         {"docs", "documentation", "guide", "tutorial", "example", "outdated", "confusing"}
    [] theme = "reliability" ->
         {"down", "outage", "error", "fail", "crash", "broken", "unstable", "timeout"}
    [] theme = "performance" ->
         {"slow", "latency", "speed", "fast", "performance", "cold start"}
    [] theme = "dx" ->
         {"developer experience", "wrangler", "cli", "sdk", "api", "typescript", "tooling"}
    [] theme = "pricing" ->
         {"price", "cost", "billing", "expensive", "cheap", "free tier", "credits"}
    [] theme = "features" ->
         {"feature", "request", "would be", "should", "wish", "need", "want", "missing"}
    [] theme = "support" ->
         {"support", "help", "response", "ticket", "resolved"}
    [] theme = "security" ->
         {"security", "auth", "permission", "403", "401", "access", "token"}

criticalKw ==
  {"urgent", "down", "outage", "production", "critical", "emergency", "asap", "sla"}

highKw ==
  {"broken", "fail", "error", "blocked", "cannot", "stuck", "alternative", "leaving"}

SummaryLen == 100
SummaryFallbackLen == 80
MaxThemes == 3
AgeCapDays == 10

\* ------------------------------------------------------------------------
\* String operations of the runtime
\* ------------------------------------------------------------------------
Min(a, b) == IF a < b THEN a ELSE b
Max(a, b) == IF a > b THEN a ELSE b

\* s.substring(0, n)
Substring(s, n) == SubSeq(s, 1, Min(n, Len(s)))

\* s.includes(kw)
Includes(s, kw) ==
  \E i \in 1..(Len(s) + 1 - Len(kw)) : SubSeq(s, i, i + Len(kw) - 1) = kw

LowerChar(c) ==
  CASE c = "A" -> "a" [] c = "B" -> "b" [] c = "C" -> "c" [] c = "D" -> "d"
    [] c = "E" -> "e" [] c = "F" -> "f" [] c = "G" -> "g" [] c = "H" -> "h"
    [] c = "I" -> "i" [] c = "J" -> "j" [] c = "K" -> "k" [] c = "L" -> "l"
    [] c = "M" -> "m" [] c = "N" -> "n" [] c = "O" -> "o" [] c = "P" -> "p"
    [] c = "Q" -> "q" [] c = "R" -> "r" [] c = "S" -> "s" [] c = "T" -> "t"
    [] c = "U" -> "u" [] c = "V" -> "v" [] c = "W" -> "w" [] c = "X" -> "x"
    [] c = "Y" -> "y" [] c = "Z" -> "z" [] OTHER -> c

RECURSIVE ToLowerCase(_)
ToLowerCase(s) ==
  IF s = "" THEN ""
  ELSE LowerChar(SubSeq(s, 1, 1)) \o ToLowerCase(SubSeq(s, 2, Len(s)))

IsSpace(c) == c = " "

RECURSIVE TrimStart(_)
TrimStart(s) ==
  IF s # "" /\ IsSpace(SubSeq(s, 1, 1)) THEN TrimStart(SubSeq(s, 2, Len(s))) ELSE s

RECURSIVE TrimEnd(_)
TrimEnd(s) ==
  IF s # "" /\ IsSpace(SubSeq(s, Len(s), Len(s)))
  THEN TrimEnd(SubSeq(s, 1, Len(s) - 1)) ELSE s

\* s.trim()
Trim(s) == TrimEnd(TrimStart(s))

\* s.split(','): the pieces between the commas, in order (one piece, "",
\* for the empty string).
RECURSIVE SplitFrom(_, _, _)
SplitFrom(s, start, i) ==
  IF i > Len(s) THEN <<SubSeq(s, start, Len(s))>>
  ELSE IF SubSeq(s, i, i) = ","
       THEN <<SubSeq(s, start, i - 1)>> \o SplitFrom(s, i + 1, i + 1)
       ELSE SplitFrom(s, start, i + 1)

Split(s) == SplitFrom(s, 1, 1)

\* JSON.stringify of a list of strings
RECURSIVE JoinQuoted(_)
JoinQuoted(seq) ==
  IF seq = <<>> THEN ""
  ELSE "\"" \o Head(seq) \o "\""
       \o (IF Len(seq) > 1 THEN "," ELSE "") \o JoinQuoted(Tail(seq))

Stringify(seq) == "[" \o JoinQuoted(seq) \o "]"

Range(seq) == {seq[i] : i \in 1..Len(seq)}


\* Array.prototype.map(t => t.trim())
RECURSIVE MapTrim(_)
MapTrim(seq) ==
  IF seq = <<>> THEN <<>> ELSE <<Trim(Head(seq))>> \o MapTrim(Tail(seq))

\* Array.prototype.filter(t => Object.keys(THEME_KEYWORDS).includes(t))
RECURSIVE FilterThemes(_)
FilterThemes(seq) ==
  IF seq = <<>> THEN <<>>
  ELSE (IF Head(seq) \in Range(ThemeNames) THEN <<Head(seq)>> ELSE <<>>)
       \o FilterThemes(Tail(seq))

\* Math.round(x / d) for an integer x and d > 0: the nearest integer, a
\* half rounded towards plus infinity.
RoundDiv(x, d) == (2 * x + d) \div (2 * d)

\* ------------------------------------------------------------------------
\* The bodies of the workflow's steps, as functions of the payload and of
\* what the provider answered.  A provider answer is a record
\* [kind, label, score, text]: kind "error" is a call that throws, "missing"
\* an answer without the field the step reads, "ok" an answer with it.
\* ------------------------------------------------------------------------
Answer(kind, label, score, text) ==
  [kind |-> kind, label |-> label, score |-> score, text |-> text]

ProviderError == Answer("error", "", 0, "")
ProviderMissing == Answer("missing", "", 0, "")
TextAnswer(text) == Answer("ok", "", 0, text)
LabelAnswer(label, score) == Answer("ok", label, score, "")

\* analyze-sentiment; a missing label reads as NEUTRAL
SentimentStep(resp) ==
  IF resp.kind = "error" THEN [sentiment |-> "neutral", score |-> 0]
  ELSE LET label == ToLowerCase(IF resp.label = "" THEN "NEUTRAL" ELSE resp.label)
           score == IF label = "positive" THEN resp.score ELSE 0 - resp.score
       IN [sentiment |-> IF label = "positive" THEN "positive"
                         ELSE IF label = "negative" THEN "negative" ELSE "neutral",
           score |-> RoundDiv(score, 10)]

\* The texts of the model: a text with keywords and capitals, the same text
\* as a sheet cell padded with blanks, and a text of more than 80 characters
\* without any keyword.
DownText == "Production is DOWN"
PaddedText == " Production is DOWN "
PlainText ==
  "Great work team, we really enjoy the new dashboard every single day of the week, many thanks"

OtherText == "Dark mode is slow"

\* texts for the steps taken alone: critical keywords only (one of them in
\* capitals, one inside a longer word), high keywords only, both kinds,
\* keywords of six themes, and no keyword at all
UrgentText == "URGENT question"
DownloadText == "Download page"
StuckText == "Login is stuck"
BlockedText == "We are blocked, looking at an alternative"
OutageText == "Outage: deploys fail"
ManyText == "Docs are slow, billing is broken, need help"
ThanksText == "Thanks"
StepTexts ==
  {DownText, PlainText, OtherText, UrgentText, DownloadText, StuckText, BlockedText,
   OutageText, ManyText, ThanksText}

Texts == StepTexts \cup {PaddedText}

Keywords ==
  UNION {THEME_KEYWORDS(ThemeNames[i]) : i \in 1..Len(ThemeNames)}
    \cup criticalKw \cup highKw

\* content.toLowerCase().includes(kw), tabulated over the texts of the model
Matches ==
  [content \in Texts |-> {kw \in Keywords : Includes(ToLowerCase(content), kw)}]

Has(content, kw) == kw \in Matches[content]

\* the themes whose keyword list has a keyword in the lower-cased text, in
\* declaration order
RECURSIVE DetectFrom(_, _)
DetectFrom(content, i) ==
  IF i > Len(ThemeNames) THEN <<>>
  ELSE (IF \E kw \in THEME_KEYWORDS(ThemeNames[i]) : Has(content, kw)
        THEN <<ThemeNames[i]>> ELSE <<>>) \o DetectFrom(content, i + 1)

\* a loop that puts each detected theme in front of those found before it
DetectedUnshift(content) ==
  LET detected == DetectFrom(content, 1)
  IN [k \in 1..Len(detected) |-> detected[Len(detected) + 1 - k]]

Detected(content) == DetectFrom(content, 1)

\* an extract-themes that asks the provider whatever the keywords found
ThemesAlwaysNeedProvider(content) == TRUE

\* whether extract-themes calls the provider
ThemesNeedProvider(content) == Detected(content) = <<>>

\* an extract-themes that returns what is left of the provider's tags, also
\* when nothing is left
ThemesStepWithoutFallback(content, resp) ==
  LET detected == Detected(content)
  IN IF detected = <<>>
     THEN IF resp.kind = "error" THEN <<"general">>
          ELSE FilterThemes(MapTrim(Split(ToLowerCase(
                 IF resp.kind = "missing" THEN "" ELSE resp.text))))
     ELSE SubSeq(detected, 1, Min(MaxThemes, Len(detected)))

\* extract-themes
ThemesStep(content, resp) ==
  LET detected == Detected(content)
  IN IF detected = <<>>
     THEN IF resp.kind = "error" THEN <<"general">>
          ELSE LET raw == IF resp.kind = "missing" THEN "" ELSE resp.text
                   aiThemes == FilterThemes(MapTrim(Split(ToLowerCase(raw))))
               IN IF Len(aiThemes) > 0 THEN aiThemes ELSE <<"general">>
     ELSE SubSeq(detected, 1, Min(MaxThemes, Len(detected)))

\* a classify-urgency whose critical keywords give critical for every tier
UrgencyStepCriticalForAll(content, customer_tier) ==
  LET tier == ToLowerCase(customer_tier)
      hasCritical == \E kw \in criticalKw : Has(content, kw)
      hasHigh == \E kw \in highKw : Has(content, kw)
  IN IF hasCritical THEN "critical"
     ELSE IF hasHigh THEN (IF tier = "enterprise" THEN "critical" ELSE "medium")
     ELSE "low"

\* a classify-urgency that does not look at the tier
UrgencyStepTierBlind(content, customer_tier) ==
  LET hasCritical == \E kw \in criticalKw : Has(content, kw)
      hasHigh == \E kw \in highKw : Has(content, kw)
  IN IF hasCritical THEN "high" ELSE IF hasHigh THEN "medium" ELSE "low"

\* a classify-urgency whose default is medium
UrgencyStepMediumDefault(content, customer_tier) ==
  LET tier == ToLowerCase(customer_tier)
      hasCritical == \E kw \in criticalKw : Has(content, kw)
      hasHigh == \E kw \in highKw : Has(content, kw)
  IN IF tier = "enterprise" /\ (hasCritical \/ hasHigh) THEN "critical"
     ELSE IF hasCritical THEN "high"
     ELSE IF hasHigh THEN "medium"
     ELSE "medium"

\* classify-urgency
UrgencyStep(content, customer_tier) ==
  LET tier == ToLowerCase(customer_tier)
      hasCritical == \E kw \in criticalKw : Has(content, kw)
      hasHigh == \E kw \in highKw : Has(content, kw)
  IN IF tier = "enterprise" /\ (hasCritical \/ hasHigh) THEN "critical"
     ELSE IF hasCritical THEN (IF tier = "enterprise" THEN "critical" ELSE "high")
     ELSE IF hasHigh THEN (IF tier = "enterprise" THEN "high" ELSE "medium")
     ELSE "low"

\* a generate-summary whose catch block lets the error through as the summary
SummaryStepWithoutDefault(content, resp) ==
  IF resp.kind = "ok" THEN Trim(Substring(resp.text, SummaryLen)) ELSE ""

\* generate-summary; reading .substring of a missing response throws, which
\* the step catches like a provider error
SummaryStep(content, resp) ==
  IF resp.kind = "ok" THEN Trim(Substring(resp.text, SummaryLen))
  ELSE Substring(content, SummaryFallbackLen) \o "..."

\* The inputs <<tierW, sevW, sentW, daysOld>> for which the double sum
\* tierW*0.4 + sevW*0.3 + sentW*0.2 + min(daysOld*0.5, 5)*0.1, times 10, falls
\* just below a half that the exact sum reaches, so that Math.round goes down.
IeeeBelowHalf ==
  {<<10, 7, 10, 9>>, <<10, 1, 5, 7>>, <<5, 7, 10, 1>>, <<5, 7, 5, 1>>,
   <<5, 7, 5, 7>>, <<5, 7, 1, 7>>, <<5, 1, 10, 7>>, <<1, 1, 1, 3>>,
   <<1, 1, 1, 9>>}

\* a calculate-priority that takes the days since creation as they are
PriorityStepWithoutAgeFloor(customer_tier, urgency, sentiment, created_at, today) ==
  LET tierW == TIER_WEIGHT(ToLowerCase(customer_tier))
      sevW == SEVERITY_WEIGHT(urgency)
      sentW == SENTIMENT_WEIGHT(sentiment)
      daysOld == today - created_at
      capped == Min(daysOld, AgeCapDays)
      hundredths == 40 * tierW + 30 * sevW + 20 * sentW + 5 * capped
  IN RoundDiv(hundredths, 10)
     - (IF <<tierW, sevW, sentW, capped>> \in IeeeBelowHalf THEN 1 ELSE 0)

\* a calculate-priority without Math.min on the age
PriorityStepUncapped(customer_tier, urgency, sentiment, created_at, today) ==
  LET tierW == TIER_WEIGHT(ToLowerCase(customer_tier))
      sevW == SEVERITY_WEIGHT(urgency)
      sentW == SENTIMENT_WEIGHT(sentiment)
      daysOld == Max(1, today - created_at)
      hundredths == 40 * tierW + 30 * sevW + 20 * sentW + 5 * daysOld
  IN RoundDiv(hundredths, 10)
     - (IF <<tierW, sevW, sentW, daysOld>> \in IeeeBelowHalf THEN 1 ELSE 0)

\* calculate-priority, in tenths; today and created_at in days
PriorityStep(customer_tier, urgency, sentiment, created_at, today) ==
  LET tierW == TIER_WEIGHT(ToLowerCase(customer_tier))
      sevW == SEVERITY_WEIGHT(urgency)
      sentW == SENTIMENT_WEIGHT(sentiment)
      daysOld == Max(1, today - created_at)
      capped == Min(daysOld, AgeCapDays)
      hundredths == 40 * tierW + 30 * sevW + 20 * sentW + 5 * capped
  IN RoundDiv(hundredths, 10)
     - (IF <<tierW, sevW, sentW, capped>> \in IeeeBelowHalf THEN 1 ELSE 0)

\* TIER_ARR[tier] || 0
ArrEstimate(tier) == TIER_ARR(tier)

\* hashContent: the first 32 hex digits of the SHA-256 digest of the text.
\* The digest is taken as injective on the texts of the model: two texts get
\* the same fingerprint only when they are the same string, character for
\* character.
hashContent(content) == "sha256:" \o content

\* ------------------------------------------------------------------------
\* Inputs
\* ------------------------------------------------------------------------
\* request bodies of POST /api/feedback; "" is an absent field
PostBodies ==
  { [content |-> c, customer_tier |-> t, source |-> "", author |-> ""] :
      c \in {DownText, PlainText}, t \in {"Pro", ""} }

SentimentAnswers == {ProviderError, LabelAnswer("NEGATIVE", 912)}
ThemeAnswers == {ProviderError, TextAnswer("Pricing, bogus,dx")}
SummaryAnswers == {ProviderError, TextAnswer(" Site is down ")}

\* ------------------------------------------------------------------------
\* State
\* ------------------------------------------------------------------------
VARIABLES
  now,        \* the clock, in days
  feedback,   \* the feedback table: id -> row, for the stored ids
  nextId,     \* how many ids crypto.randomUUID has handed out
  instances,  \* the workflow instances created: payload id -> instance
  requests,   \* POST /api/feedback requests past their INSERT: id -> payload
  reply,      \* the HTTP response the last step sent, NoReply if it sent none
  cleared,    \* history: the ids whose row a POST /api/clear deleted
  clears,     \* history: how many POST /api/clear have run
  imports,    \* the calls of importFromSheets: process -> where it stands
  finished,   \* history: the calls of importFromSheets that have returned
  env         \* the bindings SPREADSHEET_ID and SHEETS_API_KEY

importer == <<imports, finished, env>>

vars == <<now, feedback, nextId, instances, requests, reply, cleared, clears, importer>>

\* ------------------------------------------------------------------------
\* The spreadsheet and the importer's processes
\* ------------------------------------------------------------------------
SheetNames == <<"Support", "Discord", "GitHub", "Twitter">>

SHEET_SOURCES(sheetName) ==
  CASE sheetName = "Support" -> "support"
    [] sheetName = "Discord" -> "discord"
    [] sheetName = "GitHub" -> "github"
    [] sheetName = "Twitter" -> "twitter"

Configured == [SPREADSHEET_ID |-> "sheet-id", SHEETS_API_KEY |-> "key"]
Environments ==
  [SPREADSHEET_ID : {"sheet-id", ""}, SHEETS_API_KEY : {"key", ""}]

Header == <<"content", "author", "customer_tier", "timestamp">>

\* What the sheets hold, all along: a spreadsheet with a padded cell, a cell with a different author and the
\* same content, the same text unpadded, a blank first cell, a row of two
\* cells, a timestamp cell that is no date, and a sheet without any value.
Spreadsheet ==
  [sheetName \in Range(SheetNames) |->
     CASE sheetName = "Support" ->
            <<Header, <<PaddedText, "ann", " Enterprise ", "2026-01-01">>,
              <<"  ", "bob", "pro">>>>
       [] sheetName = "Discord" ->
            <<Header, <<PaddedText, "cy", "pro">>, <<"short", "row">>>>
       [] sheetName = "GitHub" ->
            <<Header, <<DownText, "", "">>, <<OtherText, "dee", "free", "soon">>,
              <<PlainText, "", "", "2026-01-02">>>>
       [] sheetName = "Twitter" -> <<>>]

\* new Date(cell): the day of a date the model knows, NULL (an invalid
\* date) for any other text; the clock starts on 2026-01-03
ParseDate(cell) ==
  CASE cell = "2026-01-01" -> Some(0 - 2)
    [] cell = "2026-01-02" -> Some(0 - 1)
    [] cell = "2026-01-03" -> Some(0)
    [] OTHER -> NULL

NoResults == [source \in {} |-> 0]

\* A call of importFromSheets.  Program state: pc, trigger (what called it),
\* sheet (index of the sheet at hand), rows (the rows still to do, the row at
\* hand first), id (the id drawn for the row at hand), sheetImported,
\* totalImported and results.  History: inserted and enqueued (rows inserted
\* and instances created by this call), caught (what its catch block caught),
\* clearsAtStart, and first (the call that had returned before this one
\* began, if any).
Importers == 1..NumImporters

Idle ==
  [pc |-> "idle", trigger |-> "", sheet |-> 0, rows |-> <<>>, id |-> 0,
   sheetImported |-> 0, totalImported |-> 0, results |-> NoResults,
   inserted |-> 0, enqueued |-> 0, caught |-> <<>>, clearsAtStart |-> 0,
   first |-> NULL]

StepNames ==
  <<"analyze-sentiment", "extract-themes", "classify-urgency",
    "generate-summary", "calculate-priority", "store-results">>

ProviderSteps == {"analyze-sentiment", "extract-themes", "generate-summary"}

Reply(route, status) ==
  [route |-> route, status |-> status, imported |-> 0, sources |-> NoResults]
NoReply == Reply("", 0)

Init ==
  /\ now = 0
  /\ feedback = <<>>
  /\ nextId = 0
  /\ instances = <<>>
  /\ requests = <<>>
  /\ reply = NoReply
  /\ cleared = {}
  /\ clears = 0
  /\ imports = [p \in Importers |-> Idle]
  /\ finished = <<>>
  /\ env = Configured

\* ------------------------------------------------------------------------
\* The feedback table
\* ------------------------------------------------------------------------
NewRow(id, source, content, content_hash, author, customer_tier, arr_estimate, created_at) ==
  [id |-> id, source |-> source, content |-> content, content_hash |-> content_hash,
   author |-> author, customer_tier |-> customer_tier, arr_estimate |-> arr_estimate,
   created_at |-> created_at,
   sentiment |-> NULL, sentiment_score |-> NULL, urgency |-> NULL, themes |-> NULL,
   summary |-> NULL, priority_score |-> NULL, processed_at |-> NULL]

\* an INSERT into a table without the unique index idx_content_hash
InsertAllowedWithoutIndex(table, row) == row.id \notin DOMAIN table

\* what INSERT checks: the primary key and the unique index idx_content_hash
InsertAllowed(table, row) ==
  /\ row.id \notin DOMAIN table
  /\ \A i \in DOMAIN table : table[i].content_hash # row.content_hash

Insert(table, row) ==
  [i \in DOMAIN table \cup {row.id} |-> IF i = row.id THEN row ELSE table[i]]

\* SELECT id FROM feedback WHERE content_hash=?
Existing(table, contentHash) ==
  \E i \in DOMAIN table : table[i].content_hash = contentHash

\* ------------------------------------------------------------------------
\* The workflow engine: an instance holds its payload and the checkpointed
\* result of every step.do that has completed; run() is replayed from the
\* top after an interruption, and step.do returns a checkpointed result
\* without running the step's body again.  History kept with an instance:
\* calls (provider calls made, by step), answers (the provider's last answer,
\* by step), deterministic (every repeated call got the answer of the call
\* before it), interruptions (the step each interruption stopped at, and
\* the day), downtime (the days spent interrupted), writes (UPDATEs of
\* store-results that ran without error) and changes (the rows those UPDATEs
\* changed, their meta.changes).
\* ------------------------------------------------------------------------
NewInstance(payload) ==
  [payload |-> payload,
   status |-> "running",
   done |-> [s \in Range(StepNames) |-> NULL],
   active |-> "none",
   pending |-> NULL,
   created |-> now,
   calls |-> [s \in ProviderSteps |-> 0],
   answers |-> [s \in ProviderSteps |-> NULL],
   deterministic |-> TRUE,
   interruptions |-> <<>>,
   downtime |-> 0,
   writes |-> 0,
   changes |-> 0]

\* the step.do the replay of run() stops at: the first one with no checkpoint
RECURSIVE FirstOpen(_, _)
FirstOpen(inst, i) ==
  IF i > Len(StepNames) THEN "return"
  ELSE IF inst.done[StepNames[i]] = NULL THEN StepNames[i]
  ELSE FirstOpen(inst, i + 1)

\* a run() that awaits extract-themes before analyze-sentiment
NextStepThemesFirst(inst) ==
  IF inst.done["extract-themes"] = NULL THEN "extract-themes" ELSE FirstOpen(inst, 1)

NextStep(inst) == FirstOpen(inst, 1)

\* step.do(name, body) is about to run its body
CanStart(id, name) ==
  /\ id \in DOMAIN instances
  /\ instances[id].status = "running"
  /\ instances[id].active = "none"
  /\ NextStep(instances[id]) = name

Result(inst, name) == inst.done[name][1]

\* a provider step without try/catch: the provider's error fails the run
CalledWithoutCatch(inst, name, resp, result) ==
  IF resp.kind = "error"
  THEN [inst EXCEPT !.status = "errored",
                    !.calls[name] = @ + 1,
                    !.answers[name] = Some(resp)]
  ELSE [inst EXCEPT !.active = name,
                    !.pending = Some(result),
                    !.calls[name] = @ + 1,
                    !.answers[name] = Some(resp),
                    !.deterministic = @ /\ inst.answers[name] \in {NULL, Some(resp)}]

\* the body of a provider step has called the provider and computed `result`
Called(inst, name, resp, result) ==
  [inst EXCEPT !.active = name,
               !.pending = Some(result),
               !.calls[name] = @ + 1,
               !.answers[name] = Some(resp),
               !.deterministic = @ /\ inst.answers[name] \in {NULL, Some(resp)}]

\* the body of a step without provider call has computed `result`
Computed(inst, name, result) ==
  [inst EXCEPT !.active = name, !.pending = Some(result)]

Without(f, id) == [i \in DOMAIN f \ {id} |-> f[i]]
With(f, id, v) == [i \in DOMAIN f \cup {id} |-> IF i = id THEN v ELSE f[i]]

\* ------------------------------------------------------------------------
\* MyWorkflow.run, step by step
\* ------------------------------------------------------------------------
AnalyzeSentiment(id, resp) ==
  /\ CanStart(id, "analyze-sentiment")
  /\ instances' = [instances EXCEPT
       ![id] = Called(@, "analyze-sentiment", resp, SentimentStep(resp))]
  /\ reply' = NoReply
  /\ UNCHANGED <<now, feedback, nextId, requests, cleared, clears, importer>>

ExtractThemes(id, resp) ==
  /\ CanStart(id, "extract-themes")
  /\ LET content == instances[id].payload.content
     IN IF ThemesNeedProvider(content)
        THEN instances' = [instances EXCEPT
               ![id] = Called(@, "extract-themes", resp, ThemesStep(content, resp))]
        ELSE /\ resp = ProviderError
             /\ instances' = [instances EXCEPT
                  ![id] = Computed(@, "extract-themes", ThemesStep(content, resp))]
  /\ reply' = NoReply
  /\ UNCHANGED <<now, feedback, nextId, requests, cleared, clears, importer>>

ClassifyUrgency(id) ==
  /\ CanStart(id, "classify-urgency")
  /\ LET feedbackItem == instances[id].payload
     IN instances' = [instances EXCEPT
          ![id] = Computed(@, "classify-urgency",
                           UrgencyStep(feedbackItem.content, feedbackItem.customer_tier))]
  /\ reply' = NoReply
  /\ UNCHANGED <<now, feedback, nextId, requests, cleared, clears, importer>>

GenerateSummary(id, resp) ==
  /\ CanStart(id, "generate-summary")
  /\ instances' = [instances EXCEPT
       ![id] = Called(@, "generate-summary", resp,
                      SummaryStep(instances[id].payload.content, resp))]
  /\ reply' = NoReply
  /\ UNCHANGED <<now, feedback, nextId, requests, cleared, clears, importer>>

CalculatePriority(id) ==
  /\ CanStart(id, "calculate-priority")
  /\ LET inst == instances[id]
     IN instances' = [instances EXCEPT
          ![id] = Computed(@, "calculate-priority",
                           PriorityStep(inst.payload.customer_tier,
                                        Result(inst, "classify-urgency"),
                                        Result(inst, "analyze-sentiment").sentiment,
                                        inst.payload.created_at, now))]
  /\ reply' = NoReply
  /\ UNCHANGED <<now, feedback, nextId, requests, cleared, clears, importer>>

\* an UPDATE whose bind() passes urgency and sentiment in each other's place
StoredRowSwapped(row, inst, today) ==
  [row EXCEPT
     !.sentiment = Some(inst.done["classify-urgency"][1]),
     !.sentiment_score = Some(inst.done["analyze-sentiment"][1].score),
     !.urgency = Some(inst.done["analyze-sentiment"][1].sentiment),
     !.themes = Some(Stringify(inst.done["extract-themes"][1])),
     !.summary = Some(inst.done["generate-summary"][1]),
     !.priority_score = Some(inst.done["calculate-priority"][1]),
     !.arr_estimate = ArrEstimate(ToLowerCase(inst.payload.customer_tier)),
     !.processed_at = Some(today)]

\* an UPDATE that does not set themes
StoredRowWithoutThemes(row, inst, today) ==
  [row EXCEPT
     !.sentiment = Some(inst.done["analyze-sentiment"][1].sentiment),
     !.sentiment_score = Some(inst.done["analyze-sentiment"][1].score),
     !.urgency = Some(inst.done["classify-urgency"][1]),
     !.summary = Some(inst.done["generate-summary"][1]),
     !.priority_score = Some(inst.done["calculate-priority"][1]),
     !.arr_estimate = ArrEstimate(ToLowerCase(inst.payload.customer_tier)),
     !.processed_at = Some(today)]

\* the row the UPDATE of store-results leaves in place of `row`
\* an UPDATE that looks the revenue up by the source instead of the tier
StoredRowArrBySource(row, inst, today) ==
  [row EXCEPT
     !.sentiment = Some(Result(inst, "analyze-sentiment").sentiment),
     !.sentiment_score = Some(Result(inst, "analyze-sentiment").score),
     !.urgency = Some(Result(inst, "classify-urgency")),
     !.themes = Some(Stringify(Result(inst, "extract-themes"))),
     !.summary = Some(Result(inst, "generate-summary")),
     !.priority_score = Some(Result(inst, "calculate-priority")),
     !.arr_estimate = ArrEstimate(ToLowerCase(inst.payload.source)),
     !.processed_at = Some(today)]

StoredRow(row, inst, today) ==
  [row EXCEPT
     !.sentiment = Some(Result(inst, "analyze-sentiment").sentiment),
     !.sentiment_score = Some(Result(inst, "analyze-sentiment").score),
     !.urgency = Some(Result(inst, "classify-urgency")),
     !.themes = Some(Stringify(Result(inst, "extract-themes"))),
     !.summary = Some(Result(inst, "generate-summary")),
     !.priority_score = Some(Result(inst, "calculate-priority")),
     !.arr_estimate = ArrEstimate(ToLowerCase(inst.payload.customer_tier)),
     !.processed_at = Some(today)]

\* an UPDATE whose WHERE matches no row
UpdateNoRow(table, inst, today) == table

\* an UPDATE without its WHERE clause
UpdateWithoutWhere(table, inst, today) ==
  [i \in DOMAIN table |-> StoredRow(table[i], inst, today)]

\* an UPDATE whose WHERE clause compares the source instead of the id
UpdateBySource(table, inst, today) ==
  [i \in DOMAIN table |->
     IF table[i].source = inst.payload.source
     THEN StoredRow(table[i], inst, today) ELSE table[i]]

\* an upsert: the row is written back when the WHERE clause matches none
UpdateOrInsert(table, inst, today) ==
  [i \in DOMAIN table \cup {inst.payload.id} |->
     IF i # inst.payload.id THEN table[i]
     ELSE IF i \in DOMAIN table THEN StoredRow(table[i], inst, today)
     ELSE StoredRow(NewRow(i, inst.payload.source, inst.payload.content,
                           hashContent(inst.payload.content), "",
                           inst.payload.customer_tier, 0, inst.payload.created_at),
                    inst, today)]

\* UPDATE feedback SET ... WHERE id=?
Update(table, inst, today) ==
  [i \in DOMAIN table |->
     IF i = inst.payload.id THEN StoredRow(table[i], inst, today) ELSE table[i]]

\* meta.changes of the UPDATE: the rows its WHERE clause matched
Changes(table, inst) ==
  Cardinality({i \in DOMAIN table : i = inst.payload.id})

\* the body of store-results after its UPDATE ran without error
Stored(inst) ==
  [inst EXCEPT !.active = "store-results",
               !.pending = Some(TRUE),
               !.writes = @ + 1]

StoreResults(id) ==
  /\ CanStart(id, "store-results")
  /\ feedback' = Update(feedback, instances[id], now)
  /\ instances' = [instances EXCEPT
       ![id] = [Stored(@) EXCEPT !.changes = @ + Changes(feedback, instances[id])]]
  /\ reply' = NoReply
  /\ UNCHANGED <<now, nextId, requests, cleared, clears, importer>>

\* a store-results that catches the error of its UPDATE and returns
StoreFailureSwallowed(inst) ==
  [inst EXCEPT !.active = "store-results", !.pending = Some(TRUE)]

\* what becomes of an instance whose store-results body threw and whose
\* retries the engine has used up: run() throws, the instance has failed
StoreFailed(inst) == [inst EXCEPT !.status = "errored"]

StoreResultsFails(id) ==
  /\ CanStart(id, "store-results")
  /\ instances' = [instances EXCEPT ![id] = StoreFailed(@)]
  /\ reply' = NoReply
  /\ UNCHANGED <<now, feedback, nextId, requests, cleared, clears, importer>>

\* step.do checkpoints the result its body returned
Checkpointed(inst) ==
  [inst EXCEPT !.done[inst.active] = inst.pending,
               !.active = "none",
               !.pending = NULL]

StepDone(id) ==
  /\ id \in DOMAIN instances
  /\ instances[id].status = "running"
  /\ instances[id].active # "none"
  /\ instances' = [instances EXCEPT ![id] = Checkpointed(@)]
  /\ reply' = NoReply
  /\ UNCHANGED <<now, feedback, nextId, requests, cleared, clears, importer>>

\* return { id, sentiment, themes, urgency, summary, priorityScore }
Return(id) ==
  /\ CanStart(id, "return")
  /\ instances' = [instances EXCEPT ![id].status = "complete"]
  /\ reply' = NoReply
  /\ UNCHANGED <<now, feedback, nextId, requests, cleared, clears, importer>>

\* an engine that keeps no checkpoint across an interruption
InterruptedWithoutCheckpoints(inst, today) ==
  [inst EXCEPT !.status = "interrupted",
               !.active = "none",
               !.pending = NULL,
               !.done = [s \in DOMAIN inst.done |-> NULL],
               !.interruptions = Append(@, [step |-> "analyze-sentiment", day |-> today])]

\* The engine is interrupted: what the running body had computed is lost,
\* the checkpoints are kept.
Interrupted(inst, today) ==
  [inst EXCEPT !.status = "interrupted",
               !.active = "none",
               !.pending = NULL,
               !.interruptions = Append(@, [step |-> NextStep(inst), day |-> today])]

Crash(id) ==
  /\ id \in DOMAIN instances
  /\ instances[id].status = "running"
  /\ instances' = [instances EXCEPT ![id] = Interrupted(@, now)]
  /\ reply' = NoReply
  /\ UNCHANGED <<now, feedback, nextId, requests, cleared, clears, importer>>

\* The engine restarts the instance: run() is replayed from the top.
Resumed(inst, today) ==
  [inst EXCEPT !.status = "running",
               !.downtime = @ + today - inst.interruptions[Len(inst.interruptions)].day]

Resume(id) ==
  /\ id \in DOMAIN instances
  /\ instances[id].status = "interrupted"
  /\ instances' = [instances EXCEPT ![id] = Resumed(@, now)]
  /\ reply' = NoReply
  /\ UNCHANGED <<now, feedback, nextId, requests, cleared, clears, importer>>

\* a day passes
Tick ==
  /\ now' = now + 1
  /\ reply' = NoReply
  /\ UNCHANGED <<feedback, nextId, instances, requests, cleared, clears, importer>>

\* ------------------------------------------------------------------------
\* fetch: POST /api/feedback and POST /api/clear
\* ------------------------------------------------------------------------
OrElse(value, default) == IF value = "" THEN default ELSE value

PostRow(id, body, created_at) ==
  LET normalizedTier == ToLowerCase(OrElse(body.customer_tier, "free"))
  IN NewRow(id, OrElse(body.source, "manual"), body.content, hashContent(body.content),
            OrElse(body.author, "anonymous"), normalizedTier,
            ArrEstimate(normalizedTier), created_at)

Payload(id, source, content, customer_tier, created_at) ==
  [id |-> id, source |-> source, content |-> content,
   customer_tier |-> customer_tier, created_at |-> created_at]

PostPayload(row) ==
  Payload(row.id, row.source, row.content, row.customer_tier, row.created_at)

\* the INSERT of POST /api/feedback succeeds; the handler is at its create call
PostFeedback(body) ==
  /\ LET row == PostRow(nextId + 1, body, now)
     IN /\ InsertAllowed(feedback, row)
        /\ feedback' = Insert(feedback, row)
        /\ requests' = With(requests, row.id, PostPayload(row))
  /\ nextId' = nextId + 1
  /\ reply' = NoReply
  /\ UNCHANGED <<now, instances, cleared, clears, importer>>

\* a handler whose catch block answers as if the INSERT had succeeded
PostFeedbackRejectedAnswersOk(body) ==
  /\ reply' = Reply("POST /api/feedback", 200)
  /\ UNCHANGED <<now, feedback, nextId, instances, requests, cleared, clears, importer>>

\* the INSERT throws (a constraint of the table, or the store fails): 500
PostFeedbackRejected(body) ==
  /\ reply' = Reply("POST /api/feedback", 500)
  /\ UNCHANGED <<now, feedback, nextId, instances, requests, cleared, clears, importer>>

\* env.MY_WORKFLOW.create returns: 200 with status "processing"
PostFeedbackCreate(id) ==
  /\ id \in DOMAIN requests
  /\ instances' = With(instances, id, NewInstance(requests[id]))
  /\ requests' = Without(requests, id)
  /\ reply' = Reply("POST /api/feedback", 200)
  /\ UNCHANGED <<now, feedback, nextId, cleared, clears, importer>>

\* env.MY_WORKFLOW.create throws: 500, the row stays
PostFeedbackCreateFails(id) ==
  /\ id \in DOMAIN requests
  /\ requests' = Without(requests, id)
  /\ reply' = Reply("POST /api/feedback", 500)
  /\ UNCHANGED <<now, feedback, nextId, instances, cleared, clears, importer>>

\* DELETE FROM feedback
Clear ==
  /\ feedback' = <<>>
  /\ cleared' = cleared \cup DOMAIN feedback
  /\ reply' = Reply("POST /api/clear", 200)
  /\ clears' = clears + 1
  /\ UNCHANGED <<now, nextId, instances, requests, importer>>


\* ------------------------------------------------------------------------
\* importFromSheets, from one suspension point to the next
\* ------------------------------------------------------------------------
Cell(row, i) == IF i <= Len(row) THEN row[i] ELSE ""

\* if (row.length < 3 || !row[0]?.trim()) continue
Skipped(row) == Len(row) < 3 \/ Trim(row[1]) = ""

BadDate(row) == Cell(row, 4) # "" /\ ParseDate(Cell(row, 4)) = NULL

SheetRow(id, sourceName, row, today) ==
  LET normalizedTier == Trim(ToLowerCase(OrElse(Cell(row, 3), "free")))
      created_at == IF Cell(row, 4) = "" THEN today ELSE ParseDate(Cell(row, 4))[1]
  IN NewRow(id, sourceName, Trim(row[1]), hashContent(row[1]),
            OrElse(Cell(row, 2), "anonymous"), normalizedTier,
            ArrEstimate(normalizedTier), created_at)

\* a check that only finds both bindings unset
NotConfiguredBothUnset == env.SPREADSHEET_ID = "" /\ env.SHEETS_API_KEY = ""

NotConfigured == env.SPREADSHEET_ID = "" \/ env.SHEETS_API_KEY = ""

ImportsBegun == Len(finished) + Cardinality({p \in Importers : imports[p].pc # "idle"})

\* the last call that has returned
LastFinished == IF finished = <<>> THEN NULL ELSE Some(finished[Len(finished)])

\* process 1 serves POST /api/import, the others the scheduled handler
Trigger(p) == IF p = 1 THEN "POST /api/import" ELSE "scheduled"

\* how many failed calls (fetch, SELECT, INSERT, create) `call` has caught
Faults(call) == Cardinality({i \in 1..Len(call.caught) : call.caught[i] # "date"})

RECURSIVE FaultsIn(_)
FaultsIn(calls) ==
  IF calls = <<>> THEN 0 ELSE Faults(Head(calls)) + FaultsIn(Tail(calls))

AllFaults == FaultsIn(finished) + FaultsIn([p \in Importers |-> imports[p]])

\* the failed calls and the clears so far
Upsets == AllFaults + clears

\* POST /api/import or the scheduled handler calls importFromSheets
ImportStart(p) ==
  /\ ~NotConfigured
  /\ imports[p].pc = "idle"
  /\ imports' = [imports EXCEPT ![p] =
       [Idle EXCEPT !.pc = "fetch", !.trigger = Trigger(p), !.sheet = 1,
                    !.clearsAtStart = clears, !.first = LastFinished]]
  /\ reply' = NoReply
  /\ UNCHANGED <<now, feedback, nextId, instances, requests, cleared, clears,
                 finished, env>>

\* the configuration is incomplete: 400 from POST /api/import, and the
\* scheduled handler returns
ImportNotConfigured(trigger) ==
  /\ NotConfigured
  /\ reply' = IF trigger = "POST /api/import" THEN Reply(trigger, 400) ELSE NoReply
  /\ UNCHANGED <<now, feedback, nextId, instances, requests, cleared, clears, importer>>

\* where the loop over the sheets goes on after sheet `call.sheet`
NextSheet(call) ==
  [call EXCEPT !.sheet = @ + 1, !.rows = <<>>, !.id = 0, !.sheetImported = 0,
               !.pc = IF call.sheet < Len(SheetNames) THEN "fetch" ELSE "return"]

\* a catch block around the whole loop: the first error ends the import
CaughtEndsImport(call, what) ==
  [call EXCEPT
    !.results = With(call.results, SHEET_SOURCES(SheetNames[call.sheet]), 0),
    !.caught = Append(@, what),
    !.rows = <<>>, !.id = 0, !.sheetImported = 0, !.pc = "return"]

\* catch (error) { results[sourceName] = 0 }
Caught(call, what) ==
  NextSheet([call EXCEPT
    !.results = With(call.results, SHEET_SOURCES(SheetNames[call.sheet]), 0),
    !.caught = Append(@, what)])

\* the rows left when the loop has skipped the rows it skips
RECURSIVE Unskipped(_)
Unskipped(rows) ==
  IF rows = <<>> THEN <<>>
  ELSE IF Skipped(Head(rows)) THEN Unskipped(Tail(rows))
  ELSE rows

\* the loop goes on with `rows`: at the SELECT of the first row it does not
\* skip, or, with no such row, results[sourceName] = sheetImported and the
\* next sheet
Continue(call, rows) ==
  LET left == Unskipped(rows)
  IN IF left # <<>>
  THEN [call EXCEPT !.pc = "select", !.rows = left, !.id = 0]
  ELSE NextSheet([call EXCEPT !.results =
         With(call.results, SHEET_SOURCES(SheetNames[call.sheet]), call.sheetImported)])

\* fetchSheetData returns the values of the sheet; rows.slice(1)
Sliced(values) == IF values = <<>> THEN <<>> ELSE Tail(values)

ImportFetch(p) ==
  /\ imports[p].pc = "fetch"
  /\ imports' = [imports EXCEPT ![p] =
       Continue(@, Sliced(Spreadsheet[SheetNames[imports[p].sheet]]))]
  /\ reply' = NoReply
  /\ UNCHANGED <<now, feedback, nextId, instances, requests, cleared, clears,
                 finished, env>>

\* fetchSheetData throws
ImportFetchFails(p) ==
  /\ imports[p].pc = "fetch"
  /\ imports' = [imports EXCEPT ![p] = Caught(@, "fetch")]
  /\ reply' = NoReply
  /\ UNCHANGED <<now, feedback, nextId, instances, requests, cleared, clears,
                 finished, env>>

\* SELECT id FROM feedback WHERE content_hash=?, and `continue` if a row exists
ImportSelect(p) ==
  /\ imports[p].pc = "select"
  /\ imports' = [imports EXCEPT ![p] =
       IF Existing(feedback, hashContent(Head(@.rows)[1]))
       THEN Continue(@, Tail(@.rows))
       ELSE [@ EXCEPT !.pc = "insert"]]
  /\ reply' = NoReply
  /\ UNCHANGED <<now, feedback, nextId, instances, requests, cleared, clears,
                 finished, env>>

\* the SELECT throws
ImportSelectFails(p) ==
  /\ imports[p].pc = "select"
  /\ imports' = [imports EXCEPT ![p] = Caught(@, "select")]
  /\ reply' = NoReply
  /\ UNCHANGED <<now, feedback, nextId, instances, requests, cleared, clears,
                 finished, env>>

\* new Date(timestamp).toISOString() throws a RangeError
ImportBadDate(p) ==
  /\ imports[p].pc = "insert"
  /\ BadDate(Head(imports[p].rows))
  /\ imports' = [imports EXCEPT ![p] = Caught(@, "date")]
  /\ reply' = NoReply
  /\ UNCHANGED <<now, feedback, nextId, instances, requests, cleared, clears,
                 finished, env>>

\* the INSERT succeeds; the call is at env.MY_WORKFLOW.create
ImportInsert(p) ==
  /\ imports[p].pc = "insert"
  /\ ~BadDate(Head(imports[p].rows))
  /\ LET call == imports[p]
         row == SheetRow(nextId + 1, SHEET_SOURCES(SheetNames[call.sheet]),
                         Head(call.rows), now)
     IN /\ InsertAllowed(feedback, row)
        /\ feedback' = Insert(feedback, row)
        /\ imports' = [imports EXCEPT ![p] =
             [@ EXCEPT !.pc = "create", !.id = row.id, !.inserted = @ + 1]]
  /\ nextId' = nextId + 1
  /\ reply' = NoReply
  /\ UNCHANGED <<now, instances, requests, cleared, clears, finished, env>>

\* the INSERT throws (a constraint of the table, or the store fails)
ImportInsertFails(p) ==
  /\ imports[p].pc = "insert"
  /\ ~BadDate(Head(imports[p].rows))
  /\ imports' = [imports EXCEPT ![p] = Caught(@, "insert")]
  /\ reply' = NoReply
  /\ UNCHANGED <<now, feedback, nextId, instances, requests, cleared, clears,
                 finished, env>>

\* env.MY_WORKFLOW.create returns; sheetImported++, totalImported++
ImportCreate(p) ==
  /\ imports[p].pc = "create"
  /\ LET call == imports[p]
         row == SheetRow(call.id, SHEET_SOURCES(SheetNames[call.sheet]),
                         Head(call.rows), now)
     IN instances' = With(instances, call.id, NewInstance(PostPayload(row)))
  /\ imports' = [imports EXCEPT ![p] =
       Continue([@ EXCEPT !.sheetImported = @ + 1, !.totalImported = @ + 1,
                          !.enqueued = @ + 1],
                Tail(@.rows))]
  /\ reply' = NoReply
  /\ UNCHANGED <<now, feedback, nextId, requests, cleared, clears, finished, env>>

\* env.MY_WORKFLOW.create throws
ImportCreateFails(p) ==
  /\ imports[p].pc = "create"
  /\ imports' = [imports EXCEPT ![p] = Caught(@, "create")]
  /\ reply' = NoReply
  /\ UNCHANGED <<now, feedback, nextId, instances, requests, cleared, clears,
                 finished, env>>

\* return { imported: totalImported, sources: results }
ImportReply(call) ==
  IF call.trigger = "POST /api/import"
  THEN [Reply(call.trigger, 200) EXCEPT
          !.imported = call.totalImported, !.sources = call.results]
  ELSE NoReply

ImportReturn(p) ==
  /\ imports[p].pc = "return"
  /\ reply' = ImportReply(imports[p])
  /\ finished' = Append(finished, [caught |-> imports[p].caught,
                                   clearsAtStart |-> imports[p].clearsAtStart])
  /\ imports' = [imports EXCEPT ![p] = Idle]
  /\ UNCHANGED <<now, feedback, nextId, instances, requests, cleared, clears, env>>

Next ==
  \/ \E id \in DOMAIN instances, resp \in SentimentAnswers : AnalyzeSentiment(id, resp)
  \/ \E id \in DOMAIN instances, resp \in ThemeAnswers : ExtractThemes(id, resp)
  \/ \E id \in DOMAIN instances : ClassifyUrgency(id)
  \/ \E id \in DOMAIN instances, resp \in SummaryAnswers : GenerateSummary(id, resp)
  \/ \E id \in DOMAIN instances : CalculatePriority(id)
  \/ \E id \in DOMAIN instances : StoreResults(id)
  \/ \E id \in DOMAIN instances : StoreResultsFails(id)
  \/ \E id \in DOMAIN instances : StepDone(id)
  \/ \E id \in DOMAIN instances : Return(id)
  \/ \E id \in DOMAIN instances : Len(instances[id].interruptions) < MaxCrashes /\ Crash(id)
  \/ \E id \in DOMAIN instances : Resume(id)
  \/ now < MaxDay /\ Tick
  \/ \E body \in PostBodies : nextId < MaxRuns /\ PostFeedback(body)
  \/ \E body \in PostBodies : PostFeedbackRejected(body)
  \/ \E id \in DOMAIN requests : PostFeedbackCreate(id)
  \/ \E id \in DOMAIN requests : PostFeedbackCreateFails(id)
  \/ Upsets < MaxUpsets /\ Clear

Spec == Init /\ [][Next]_vars

Triggers == {Trigger(p) : p \in Importers}

\* the body POST /api/feedback is called with while imports run
ImportPostBodies == {body \in PostBodies : body.content = DownText /\ body.customer_tier = "Pro"}

InitImport ==
  /\ now = 0
  /\ feedback = <<>>
  /\ nextId = 0
  /\ instances = <<>>
  /\ requests = <<>>
  /\ reply = NoReply
  /\ cleared = {}
  /\ clears = 0
  /\ imports = [p \in Importers |-> Idle]
  /\ finished = <<>>
  /\ env \in Environments

NextImport ==
  \/ \E p \in Importers : ImportsBegun < MaxImports /\ ImportStart(p)
  \/ \E trigger \in Triggers : ImportNotConfigured(trigger)
  \/ \E p \in Importers : ImportFetch(p)
  \/ \E p \in Importers : Upsets < MaxUpsets /\ ImportFetchFails(p)
  \/ \E p \in Importers : ImportSelect(p)
  \/ \E p \in Importers : Upsets < MaxUpsets /\ ImportSelectFails(p)
  \/ \E p \in Importers : ImportBadDate(p)
  \/ \E p \in Importers : ImportInsert(p)
  \/ \E p \in Importers : Upsets < MaxUpsets /\ ImportInsertFails(p)
  \/ \E p \in Importers : ImportCreate(p)
  \/ \E p \in Importers : Upsets < MaxUpsets /\ ImportCreateFails(p)
  \/ \E p \in Importers : ImportReturn(p)
  \/ \E body \in ImportPostBodies : PostFeedback(body)
  \/ \E body \in ImportPostBodies : PostFeedbackRejected(body)
  \/ \E id \in DOMAIN requests : PostFeedbackCreate(id)
  \/ \E id \in DOMAIN requests : PostFeedbackCreateFails(id)
  \/ Upsets < MaxUpsets /\ Clear

SpecImport == InitImport /\ [][NextImport]_vars

\* ------------------------------------------------------------------------
\* The workflow under a fair engine: every provider call returns or throws,
\* the UPDATE of store-results succeeds, an interrupted instance is resumed
\* ------------------------------------------------------------------------
Ids == 1..MaxRuns

\* what the engine does next for instance `id`
Progress(id) ==
  \/ \E resp \in SentimentAnswers : AnalyzeSentiment(id, resp)
  \/ \E resp \in ThemeAnswers : ExtractThemes(id, resp)
  \/ ClassifyUrgency(id)
  \/ \E resp \in SummaryAnswers : GenerateSummary(id, resp)
  \/ CalculatePriority(id)
  \/ StoreResults(id)
  \/ StepDone(id)
  \/ Return(id)
  \/ Resume(id)

NextLive ==
  \/ \E id \in DOMAIN instances : Progress(id)
  \/ \E id \in DOMAIN instances : Len(instances[id].interruptions) < MaxCrashes /\ Crash(id)
  \/ \E body \in PostBodies : nextId < MaxRuns /\ PostFeedback(body)
  \/ \E id \in DOMAIN requests : PostFeedbackCreate(id)
  \/ \E id \in DOMAIN requests : PostFeedbackCreateFails(id)
  \/ Upsets < MaxUpsets /\ Clear

SpecLive == Init /\ [][NextLive]_vars /\ \A id \in Ids : WF_vars(Progress(id))

\* ------------------------------------------------------------------------
\* The steps taken alone: the engine finds an instance at a step, the steps
\* before it checkpointed, and runs that step
\* ------------------------------------------------------------------------
\* the instance of `payload` with the results `results` of its first steps
\* checkpointed
FoundAt(payload, results) ==
  [NewInstance(payload) EXCEPT
     !.done = [name \in Range(StepNames) |->
                 IF \E i \in 1..Len(results) : StepNames[i] = name
                 THEN Some(results[CHOOSE i \in 1..Len(results) : StepNames[i] = name])
                 ELSE NULL]]

\* after POST /api/feedback with `body` and the first steps of its run
InitAt(body, results) ==
  /\ now = 0
  /\ nextId = 1
  /\ feedback = With(<<>>, 1, PostRow(1, body, 0))
  /\ instances = With(<<>>, 1, FoundAt(PostPayload(PostRow(1, body, 0)), results))
  /\ requests = <<>>
  /\ reply = NoReply
  /\ cleared = {}
  /\ clears = 0
  /\ imports = [p \in Importers |-> Idle]
  /\ finished = <<>>
  /\ env = Configured

StepBody(content, customer_tier) ==
  [content |-> content, customer_tier |-> customer_tier, source |-> "", author |-> ""]

\* what analyze-sentiment may have returned
SentimentResults ==
  {SentimentStep(ProviderError), SentimentStep(LabelAnswer("NEGATIVE", 912)),
   SentimentStep(LabelAnswer("POSITIVE", 998))}

\* what the provider may answer in extract-themes: an error, no response
\* field, an empty text, tags in and outside the taxonomy, capitals and
\* blanks, four tags, a tag twice
ThemeResponses ==
  {ProviderError, ProviderMissing, TextAnswer(""), TextAnswer("Pricing, bogus,dx"),
   TextAnswer("bogus, other"), TextAnswer("general"), TextAnswer(" SUPPORT "),
   TextAnswer("pricing,dx,security,support"), TextAnswer("dx,dx")}

InitThemes ==
  \E content \in StepTexts, sentiment \in SentimentResults :
    InitAt(StepBody(content, "Pro"), <<sentiment>>)

NextThemes ==
  \/ \E id \in DOMAIN instances, resp \in ThemeResponses : ExtractThemes(id, resp)
  \/ \E id \in DOMAIN instances : StepDone(id)

SpecThemes == InitThemes /\ [][NextThemes]_vars

\* the customer_tier fields POST /api/feedback is called with
PostedTiers == {"Enterprise", "Pro", "", "vip"}

InitUrgency ==
  \E content \in StepTexts, customer_tier \in PostedTiers :
    InitAt(StepBody(content, customer_tier),
           <<SentimentStep(ProviderError), ThemesStep(content, ProviderError)>>)

NextUrgency ==
  \/ \E id \in DOMAIN instances : ClassifyUrgency(id)
  \/ \E id \in DOMAIN instances : StepDone(id)

SpecUrgency == InitUrgency /\ [][NextUrgency]_vars

\* calculate-priority alone.  The step reads the tier of the payload, the
\* checkpoints of classify-urgency and analyze-sentiment, created_at and the
\* clock; the checkpoints are drawn from the values the tables know and one
\* value they do not know each.
PriorityUrgencies == {"critical", "high", "medium", "low", "blocker"}

PrioritySentiments == {"negative", "neutral", "positive", "mixed"}

\* created_at is the day of the POST, or the timestamp cell of an imported
\* row, which may lie after the day the step runs
CreatedDays == {0, 1}

PriorityDays == {0, 1, 2, 3, 7, 9, 10, 11, 100}

\* the item of `body` created on day created_at, its instance found on day
\* `today` with the results `results` of its first steps checkpointed
InitAged(body, created_at, today, results) ==
  /\ now = today
  /\ nextId = 1
  /\ feedback = With(<<>>, 1, PostRow(1, body, created_at))
  /\ instances = With(<<>>, 1, FoundAt(PostPayload(PostRow(1, body, created_at)), results))
  /\ requests = <<>>
  /\ reply = NoReply
  /\ cleared = {}
  /\ clears = 0
  /\ imports = [p \in Importers |-> Idle]
  /\ finished = <<>>
  /\ env = Configured

InitPriority ==
  \E customer_tier \in PostedTiers, urgency \in PriorityUrgencies,
     sentiment \in PrioritySentiments, created_at \in CreatedDays,
     today \in PriorityDays :
    InitAged(StepBody(PlainText, customer_tier), created_at, today,
             <<[sentiment |-> sentiment, score |-> 0],
               ThemesStep(PlainText, ProviderError),
               urgency,
               SummaryStep(PlainText, ProviderError)>>)

NextPriority ==
  \/ \E id \in DOMAIN instances : CalculatePriority(id)
  \/ \E id \in DOMAIN instances : StoreResults(id)
  \/ \E id \in DOMAIN instances : StepDone(id)
  \/ \E id \in DOMAIN instances : Return(id)

SpecPriority == InitPriority /\ [][NextPriority]_vars

\* store-results alone, for rows of both origins.  The cells of a sheet row
\* are content, author, customer_tier and timestamp.
SheetRows ==
  { <<content, "ann", tier, "2026-01-02">> :
      content \in {PaddedText, DownText, PlainText, OtherText},
      tier \in {" Enterprise ", "PRO", "", "vip"} }

CreatedRows ==
  {PostRow(1, StepBody(content, customer_tier), 0) :
     content \in StepTexts, customer_tier \in PostedTiers}
  \cup {SheetRow(1, "support", row, 0) : row \in SheetRows}

\* the results of the five steps before store-results for the payload of
\* `row`, the provider calls having thrown
StepResults(row) ==
  <<SentimentStep(ProviderError),
    ThemesStep(row.content, ProviderError),
    UrgencyStep(row.content, row.customer_tier),
    SummaryStep(row.content, ProviderError),
    PriorityStep(row.customer_tier, UrgencyStep(row.content, row.customer_tier),
                 "neutral", row.created_at, 0)>>

\* the row `row` stored and its instance found with `results` checkpointed
InitFound(row, results) ==
  /\ now = 0
  /\ nextId = 1
  /\ feedback = With(<<>>, 1, row)
  /\ instances = With(<<>>, 1, FoundAt(PostPayload(row), results))
  /\ requests = <<>>
  /\ reply = NoReply
  /\ cleared = {}
  /\ clears = 0
  /\ imports = [p \in Importers |-> Idle]
  /\ finished = <<>>
  /\ env = Configured

InitStore == \E row \in CreatedRows : InitFound(row, StepResults(row))

NextStore ==
  \/ \E id \in DOMAIN instances : StoreResults(id)
  \/ \E id \in DOMAIN instances : StepDone(id)
  \/ \E id \in DOMAIN instances : Return(id)

SpecStore == InitStore /\ [][NextStore]_vars

\* generate-summary and the steps after it.  What the provider may answer:
\* it throws, answers without a response field, with an empty or a blank
\* response, with a padded sentence, with more than 100 characters.
SummaryResponses ==
  {ProviderError, ProviderMissing, TextAnswer(""), TextAnswer("   "),
   TextAnswer(" Site is down "), TextAnswer(PlainText \o ", " \o PlainText)}

InitSummary ==
  \E content \in StepTexts :
    InitAt(StepBody(content, "Pro"),
           <<SentimentStep(ProviderError), ThemesStep(content, ProviderError),
             UrgencyStep(content, "pro")>>)

NextSummary ==
  \/ \E id \in DOMAIN instances, resp \in SummaryResponses : GenerateSummary(id, resp)
  \/ \E id \in DOMAIN instances : CalculatePriority(id)
  \/ \E id \in DOMAIN instances : StoreResults(id)
  \/ \E id \in DOMAIN instances : StepDone(id)
  \/ \E id \in DOMAIN instances : Return(id)

SpecSummary == InitSummary /\ [][NextSummary]_vars

\* Two runs in flight at once: two items posted and their instances
\* created, every step of either run interleaved with the steps of the other
RunBodies ==
  {<<StepBody(DownText, "Enterprise"), StepBody(ThanksText, "")>>,
   <<StepBody(StuckText, "Pro"), StepBody(OtherText, "vip")>>}

InitRuns ==
  \E bodies \in RunBodies :
    /\ now = 0
    /\ nextId = 2
    /\ feedback = [id \in {1, 2} |-> PostRow(id, bodies[id], 0)]
    /\ instances = [id \in {1, 2} |-> NewInstance(PostPayload(PostRow(id, bodies[id], 0)))]
    /\ requests = <<>>
    /\ reply = NoReply
    /\ cleared = {}
    /\ clears = 0
    /\ imports = [p \in Importers |-> Idle]
    /\ finished = <<>>
    /\ env = Configured

NextRuns ==
  \/ \E id \in DOMAIN instances, resp \in SentimentAnswers : AnalyzeSentiment(id, resp)
  \/ \E id \in DOMAIN instances, resp \in ThemeAnswers : ExtractThemes(id, resp)
  \/ \E id \in DOMAIN instances : ClassifyUrgency(id)
  \/ \E id \in DOMAIN instances, resp \in SummaryAnswers : GenerateSummary(id, resp)
  \/ \E id \in DOMAIN instances : CalculatePriority(id)
  \/ \E id \in DOMAIN instances : StoreResults(id)
  \/ \E id \in DOMAIN instances : StepDone(id)
  \/ \E id \in DOMAIN instances : Return(id)

SpecRuns == InitRuns /\ [][NextRuns]_vars

\* analyze-sentiment alone.  What the classifier may answer: an error, the
\* two labels of the binary classifier in either case with a confidence in
\* thousandths, a label the step does not know, and an answer without label
SentimentResponses ==
  {ProviderError, LabelAnswer("POSITIVE", 998), LabelAnswer("NEGATIVE", 912),
   LabelAnswer("positive", 501), LabelAnswer("Negative", 4),
   LabelAnswer("POSITIVE", 0), LabelAnswer("NEUTRAL", 0),
   LabelAnswer("LABEL_1", 700), LabelAnswer("", 700), LabelAnswer("MIXED", 4)}

InitSentiment ==
  \E content \in StepTexts : InitAt(StepBody(content, "Pro"), <<>>)

NextSentiment ==
  \/ \E id \in DOMAIN instances, resp \in SentimentResponses : AnalyzeSentiment(id, resp)
  \/ \E id \in DOMAIN instances : StepDone(id)

SpecSentiment == InitSentiment /\ [][NextSentiment]_vars

\* ------------------------------------------------------------------------
\* Properties of the table under imports
\* ------------------------------------------------------------------------

\* C1: in every reachable state, whatever imports (two of them at once),
\* POST /api/feedback and POST /api/clear have run and however their steps
\* interleaved, no two rows of the feedback table have the same
\* content_hash.
C1_UniqueContentHash ==
  \A i, j \in DOMAIN feedback :
    feedback[i].content_hash = feedback[j].content_hash => i = j

\* a call's SELECT found no row, and by now another writer has stored a row
\* with that content_hash: the call is about to INSERT a duplicate
C1_Witness ==
  \E p \in Importers :
    /\ imports[p].pc = "insert"
    /\ Existing(feedback, hashContent(Head(imports[p].rows)[1]))

\* the contents of the rows the import does not skip
ValidContents ==
  UNION {{Sliced(Spreadsheet[sheetName])[i][1] :
            i \in {k \in 1..Len(Sliced(Spreadsheet[sheetName])) :
                     ~Skipped(Sliced(Spreadsheet[sheetName])[k])}} :
         sheetName \in Range(SheetNames)}

StoredTimes(content) ==
  Cardinality({i \in DOMAIN feedback : feedback[i].content_hash = hashContent(content)})

NoFailedCall(caught) == \A i \in 1..Len(caught) : caught[i] = "date"

\* a call that began after another had returned is about to return; no
\* fetch, SELECT, INSERT or create call of either failed, and the table has
\* not been cleared since the first began
SecondOfTwo(p) ==
  /\ imports[p].pc = "return"
  /\ imports[p].first # NULL
  /\ NoFailedCall(imports[p].first[1].caught)
  /\ NoFailedCall(imports[p].caught)
  /\ imports[p].first[1].clearsAtStart = clears

AddedNothing(call) ==
  /\ call.inserted = 0
  /\ call.enqueued = 0
  /\ call.totalImported = 0
  /\ \A sourceName \in DOMAIN call.results : call.results[sourceName] = 0

\* C2: when importFromSheets runs twice in sequence over the same sheets and
\* no call fails, the second run inserts no row, creates no workflow
\* instance and reports 0 for every source, and the content of every row
\* that is not skipped is stored exactly once.
C2_Idempotent ==
  \A p \in Importers :
    SecondOfTwo(p) =>
      /\ AddedNothing(imports[p])
      /\ \A content \in ValidContents : StoredTimes(content) = 1

\* the part of C2 about the second run alone
C2_SecondRunAddsNothing ==
  \A p \in Importers : SecondOfTwo(p) => AddedNothing(imports[p])

\* ------------------------------------------------------------------------
\* Properties of the workflow
\* ------------------------------------------------------------------------
IsDone(inst, name) == inst.done[name] # NULL

AllDone(inst) == \A i \in 1..Len(StepNames) : IsDone(inst, StepNames[i])

\* C3: within one run the steps complete in the order analyze-sentiment,
\* extract-themes, classify-urgency, generate-summary, calculate-priority,
\* store-results: the checkpointed steps are a prefix of that order, the
\* step in progress is the first one without a checkpoint (so every step
\* before it is checkpointed and no other step is in progress), and a run
\* that has returned has checkpointed every step, store-results last.
C3_StepsInOrder ==
  \A id \in DOMAIN instances :
    LET inst == instances[id]
    IN /\ \A i, j \in 1..Len(StepNames) :
            i < j /\ IsDone(inst, StepNames[j]) => IsDone(inst, StepNames[i])
       /\ inst.active # "none" =>
            /\ inst.active = NextStep(inst)
            /\ inst.pending # NULL
       /\ inst.active = "none" => inst.pending = NULL
       /\ inst.status = "complete" => AllDone(inst)
       /\ IsDone(inst, "store-results") => AllDone(inst)

\* a run in which store-results is in progress after the five steps before it
C3_Witness ==
  \E id \in DOMAIN instances :
    /\ instances[id].active = "store-results"
    /\ IsDone(instances[id], "calculate-priority")
    /\ instances[id].interruptions = <<>>

\* C4: once a step's result is checkpointed, the step's body does not run
\* again and its provider is not called again, also across an interruption;
\* a step that starts is the first one without a checkpoint.
C4_CheckpointedNotRerun ==
  [][\A id \in DOMAIN instances :
       LET before == instances[id]
           after == instances'[id]
       IN /\ \A name \in Range(StepNames) :
               IsDone(before, name) =>
                 /\ after.done[name] = before.done[name]
                 /\ after.active # name
                 /\ name \in ProviderSteps => after.calls[name] = before.calls[name]
          /\ after.active # "none" /\ before.active = "none" =>
               after.active = NextStep(before)]_vars

\* a run interrupted between analyze-sentiment and extract-themes that has
\* returned, with one call of the sentiment provider
C4_Witness ==
  \E id \in DOMAIN instances :
    /\ Len(instances[id].interruptions) = 1
    /\ instances[id].interruptions[1].step = "extract-themes"
    /\ instances[id].status = "complete"
    /\ instances[id].calls["analyze-sentiment"] = 1

\* What an uninterrupted run of the payload stores, given the provider's
\* answers and the day it runs on.
AnswerOf(inst, name) ==
  IF inst.answers[name] = NULL THEN ProviderError ELSE inst.answers[name][1]

Uninterrupted(inst, today) ==
  LET item == inst.payload
      sentiment == SentimentStep(AnswerOf(inst, "analyze-sentiment"))
      themes == ThemesStep(item.content, AnswerOf(inst, "extract-themes"))
      urgency == UrgencyStep(item.content, item.customer_tier)
      summary == SummaryStep(item.content, AnswerOf(inst, "generate-summary"))
  IN [sentiment |-> Some(sentiment.sentiment),
      sentiment_score |-> Some(sentiment.score),
      urgency |-> Some(urgency),
      themes |-> Some(Stringify(themes)),
      summary |-> Some(summary),
      priority_score |-> Some(PriorityStep(item.customer_tier, urgency,
                                           sentiment.sentiment, item.created_at, today)),
      arr_estimate |-> TIER_ARR(ToLowerCase(item.customer_tier))]

Enrichment(row) ==
  [sentiment |-> row.sentiment, sentiment_score |-> row.sentiment_score,
   urgency |-> row.urgency, themes |-> row.themes, summary |-> row.summary,
   priority_score |-> row.priority_score, arr_estimate |-> row.arr_estimate]

\* the instances that were interrupted and resumed, got the same answer
\* from a provider whenever they asked again, and have stored their results
ResumedAndStored ==
  {id \in DOMAIN instances \cap DOMAIN feedback :
     /\ instances[id].interruptions # <<>>
     /\ instances[id].status # "interrupted"
     /\ instances[id].deterministic
     /\ instances[id].writes > 0}

\* the days between the creation of the instance and its store were all
\* spent interrupted: no day passed while the run was running
NoDayWhileRunning(id) ==
  feedback[id].processed_at[1] - instances[id].created = instances[id].downtime

\* C5 as claimed: an interrupted and resumed run stores what the run would
\* have stored without the interruption, however many days it spent
\* interrupted.
C5_Claimed ==
  \A id \in ResumedAndStored :
    NoDayWhileRunning(id) =>
      Enrichment(feedback[id]) = Uninterrupted(instances[id], instances[id].created)

\* C5, amended: an interrupted and resumed run stores the sentiment,
\* sentiment_score, urgency, themes, summary and arr_estimate of an
\* uninterrupted run, and as priority_score the one of an uninterrupted run
\* on the day its calculate-priority step ran, a day between the creation
\* of the instance and the store.
C5_SameUpToAge ==
  \A id \in ResumedAndStored :
    \E today \in instances[id].created..feedback[id].processed_at[1] :
      Enrichment(feedback[id]) = Uninterrupted(instances[id], today)

\* a run interrupted before calculate-priority whose stored priority_score
\* is not the one of the day the instance was created
C5_Witness ==
  \E id \in ResumedAndStored :
    /\ instances[id].interruptions[1].step \in {"classify-urgency", "calculate-priority"}
    /\ NoDayWhileRunning(id)
    /\ Enrichment(feedback[id]) # Uninterrupted(instances[id], instances[id].created)

\* which of sentiment, sentiment_score, urgency, themes, summary and
\* processed_at are NULL in a row
NullColumns(row) ==
  {row.sentiment = NULL, row.sentiment_score = NULL, row.urgency = NULL,
   row.themes = NULL, row.summary = NULL, row.processed_at = NULL}

C7_StoredOnce ==
  [][/\ \A id \in DOMAIN instances' : instances'[id].writes <= 1
     /\ \A id \in DOMAIN feedback \cap DOMAIN feedback' :
          feedback[id].processed_at # NULL =>
            feedback'[id].processed_at = feedback[id].processed_at]_vars

\* C8: a run has returned only if an UPDATE of store-results ran without
\* error and the step was checkpointed; a run whose store-results failed has
\* not returned and has no checkpoint for store-results.
C8_ReturnsAfterStore ==
  \A id \in DOMAIN instances :
    LET inst == instances[id]
    IN /\ inst.status = "complete" => inst.writes > 0 /\ IsDone(inst, "store-results")
       /\ inst.status = "errored" => ~IsDone(inst, "store-results")
       /\ IsDone(inst, "store-results") => inst.writes > 0

\* a run that has failed in store-results, and no run that has returned
C8_Witness ==
  \E id \in DOMAIN instances :
    /\ instances[id].status = "errored"
    /\ NextStep(instances[id]) = "store-results"

\* C9 as claimed: whenever a run has returned, its row exists and has a
\* processed_at.
C9_Claimed ==
  \A id \in DOMAIN instances :
    instances[id].status = "complete" =>
      id \in DOMAIN feedback /\ feedback[id].processed_at # NULL

\* C9, amended: whenever a run has returned and no POST /api/clear has
\* deleted its row, the row exists and has a processed_at.
C9_ObservableUnlessCleared ==
  \A id \in DOMAIN instances :
    instances[id].status = "complete" /\ id \notin cleared =>
      id \in DOMAIN feedback /\ feedback[id].processed_at # NULL

\* a run that has returned, its row not deleted by a clear and processed
C9_Witness ==
  \E id \in DOMAIN instances :
    /\ instances[id].status = "complete"
    /\ id \notin cleared
    /\ id \in DOMAIN feedback
    /\ feedback[id].processed_at # NULL

\* C10: a provider error fails no run.  A checkpointed step whose provider
\* call threw holds the step's default (neutral with score 0, the one theme
\* general, the first 80 characters of the text followed by "..."), and a
\* run fails only in store-results.
C10_ProviderErrorsDefault ==
  \A id \in DOMAIN instances :
    LET inst == instances[id]
        threw(name) == IsDone(inst, name) /\ inst.answers[name] = Some(ProviderError)
    IN /\ threw("analyze-sentiment") =>
            Result(inst, "analyze-sentiment") = [sentiment |-> "neutral", score |-> 0]
       /\ threw("extract-themes") => Result(inst, "extract-themes") = <<"general">>
       /\ threw("generate-summary") =>
            Result(inst, "generate-summary")
              = SubSeq(inst.payload.content, 1, Min(80, Len(inst.payload.content))) \o "..."
       /\ inst.status = "errored" => NextStep(inst) = "store-results"

\* a run whose three provider calls all threw and that has returned, the
\* text longer than 80 characters
C10_Witness ==
  \E id \in DOMAIN instances :
    /\ instances[id].status = "complete"
    /\ \A name \in ProviderSteps : instances[id].answers[name] = Some(ProviderError)
    /\ Len(instances[id].payload.content) > 80
    /\ id \in DOMAIN feedback
    /\ feedback[id].summary # NULL
    /\ Len(feedback[id].summary[1]) = 83

\* C11: under a fair engine, with provider calls that return or throw and a
\* store-results UPDATE that succeeds, every instance that was created
\* eventually has returned (status complete), whatever the providers
\* answered and wherever it was interrupted.
C11_EventuallyComplete ==
  \A id \in Ids :
    (id \in DOMAIN instances) ~>
      (id \in DOMAIN instances /\ instances[id].status = "complete")

\* a run that has returned after an interruption, its three provider calls
\* having thrown
C11_Witness ==
  \E id \in DOMAIN instances :
    /\ instances[id].status = "complete"
    /\ instances[id].interruptions # <<>>
    /\ \A name \in ProviderSteps : instances[id].answers[name] = Some(ProviderError)

\* the themes extract-themes has checkpointed
ThemesOf(id) == Result(instances[id], "extract-themes")

ThemesDone == {id \in DOMAIN instances : IsDone(instances[id], "extract-themes")}

\* C12: for every text and every provider response, extract-themes returns
\* between 1 and 3 tags, each of them a key of THEME_KEYWORDS or general.
C12_OneToThreeTags ==
  \A id \in ThemesDone :
    /\ Len(ThemesOf(id)) >= 1
    /\ Len(ThemesOf(id)) <= 3
    /\ \A i \in 1..Len(ThemesOf(id)) :
         ThemesOf(id)[i] \in Range(ThemeNames) \cup {"general"}

\* the part of C12 that holds on both paths: at least one tag, every tag of
\* the taxonomy or general, and at most 3 tags when a keyword matched
C12_TagsOfTaxonomy ==
  \A id \in ThemesDone :
    /\ Len(ThemesOf(id)) >= 1
    /\ \A i \in 1..Len(ThemesOf(id)) :
         ThemesOf(id)[i] \in Range(ThemeNames) \cup {"general"}
    /\ instances[id].answers["extract-themes"] = NULL => Len(ThemesOf(id)) <= 3

\* the provider answers with no tag of the taxonomy in them
UnusableAnswers ==
  {ProviderError, ProviderMissing, TextAnswer(""), TextAnswer("bogus, other"),
   TextAnswer("general")}

\* C13: extract-themes never returns an empty list, and when no keyword of
\* any theme is in the text and the provider throws, answers nothing or
\* answers only tags outside the taxonomy, it returns exactly <<"general">>.
C13_GeneralFallback ==
  \A id \in ThemesDone :
    /\ ThemesOf(id) # <<>>
    /\ (/\ Matches[instances[id].payload.content] \cap
             UNION {THEME_KEYWORDS(ThemeNames[i]) : i \in 1..Len(ThemeNames)} = {}
        /\ instances[id].answers["extract-themes"] \in {Some(a) : a \in UnusableAnswers})
       => ThemesOf(id) = <<"general">>

\* extract-themes has returned general for a text without keyword, the
\* provider having answered only tags outside the taxonomy
C13_Witness ==
  \E id \in ThemesDone :
    /\ instances[id].answers["extract-themes"] = Some(TextAnswer("bogus, other"))
    /\ ThemesOf(id) = <<"general">>

\* the urgency classify-urgency has checkpointed
UrgencyOf(id) == Result(instances[id], "classify-urgency")

UrgencyDone == {id \in DOMAIN instances : IsDone(instances[id], "classify-urgency")}

HasCriticalKw(id) == Matches[instances[id].payload.content] \cap criticalKw # {}

HasHighKw(id) == Matches[instances[id].payload.content] \cap highKw # {}

IsEnterprise(id) == ToLowerCase(instances[id].payload.customer_tier) = "enterprise"

\* C14: for a text with a critical keyword, classify-urgency returns
\* critical for tier enterprise and high for every other tier, with or
\* without high keywords in the text.
C14_CriticalKeyword ==
  \A id \in UrgencyDone :
    HasCriticalKw(id) =>
      UrgencyOf(id) = IF IsEnterprise(id) THEN "critical" ELSE "high"

\* a text with a critical and a high keyword classified high for a tier
\* that is not enterprise
C14_Witness ==
  \E id \in UrgencyDone :
    /\ HasCriticalKw(id)
    /\ HasHighKw(id)
    /\ ~IsEnterprise(id)
    /\ UrgencyOf(id) = "high"

\* C15: for a text with a high keyword and no critical keyword,
\* classify-urgency returns high for tier enterprise and medium for every
\* other tier.
C15_HighKeyword ==
  \A id \in UrgencyDone :
    HasHighKw(id) /\ ~HasCriticalKw(id) =>
      UrgencyOf(id) = IF IsEnterprise(id) THEN "high" ELSE "medium"

\* the part of C15 about the tiers other than enterprise
C15_HighKeywordOtherTiers ==
  \A id \in UrgencyDone :
    HasHighKw(id) /\ ~HasCriticalKw(id) /\ ~IsEnterprise(id) => UrgencyOf(id) = "medium"

Severity(urgency) ==
  CASE urgency = "low" -> 1
    [] urgency = "medium" -> 2
    [] urgency = "high" -> 3
    [] urgency = "critical" -> 4

\* C16: the urgency of a text for tier enterprise is at least as severe as
\* the urgency classify-urgency returned for it for any tier, and for a text
\* with a critical keyword and a tier other than enterprise the step
\* returned high where enterprise gets critical.
C16_TierEscalates ==
  \A id \in UrgencyDone :
    LET forEnterprise == UrgencyStep(instances[id].payload.content, "enterprise")
    IN /\ Severity(forEnterprise) >= Severity(UrgencyOf(id))
       /\ HasCriticalKw(id) /\ ~IsEnterprise(id) =>
            UrgencyOf(id) = "high" /\ forEnterprise = "critical"

\* a text with a critical keyword classified high for tier free
C16_Witness ==
  \E id \in UrgencyDone :
    /\ HasCriticalKw(id)
    /\ instances[id].payload.customer_tier = "free"
    /\ UrgencyOf(id) = "high"
    /\ UrgencyStep(instances[id].payload.content, "enterprise") = "critical"

\* C17: classify-urgency returns one of critical, high, medium, low; for a
\* text with neither a critical nor a high keyword it returns low whatever
\* the tier, and the step has called no provider.
C17_OneLevelLowByDefault ==
  \A id \in UrgencyDone :
    /\ UrgencyOf(id) \in {"critical", "high", "medium", "low"}
    /\ ~HasCriticalKw(id) /\ ~HasHighKw(id) => UrgencyOf(id) = "low"
    /\ \A name \in ProviderSteps :
         instances[id].calls[name] = 0 /\ instances[id].answers[name] = NULL

\* a text without critical or high keyword classified low for enterprise
C17_Witness ==
  \E id \in UrgencyDone :
    /\ ~HasCriticalKw(id)
    /\ ~HasHighKw(id)
    /\ IsEnterprise(id)
    /\ UrgencyOf(id) = "low"

\* the score calculate-priority has checkpointed, in tenths
PriorityOf(id) == Result(instances[id], "calculate-priority")

PriorityDone == {id \in DOMAIN instances : IsDone(instances[id], "calculate-priority")}

\* the four inputs of the step
TierOf(id) == instances[id].payload.customer_tier

SeverityOf(id) == Result(instances[id], "classify-urgency")

SentimentOf(id) == Result(instances[id], "analyze-sentiment").sentiment

\* whole days since creation on the day of the state
DaysSince(id) == now - instances[id].payload.created_at

KnownInputs(id) ==
  /\ TierOf(id) \in {"enterprise", "pro", "free"}
  /\ SeverityOf(id) \in {"critical", "high", "medium", "low"}
  /\ SentimentOf(id) \in {"negative", "neutral", "positive"}

\* 0.4*T + 0.3*S + 0.2*N + 0.1*min(0.5*days, 5) in hundredths, with the
\* weights as the specification lists them and its defaults for the rest
ExactScore(tier, urgency, sentiment, days) ==
  LET T == IF tier = "enterprise" THEN 10 ELSE IF tier = "pro" THEN 5 ELSE 1
      S == IF urgency = "critical" THEN 10 ELSE IF urgency = "high" THEN 7
           ELSE IF urgency = "low" THEN 1 ELSE 4
      N == IF sentiment = "negative" THEN 10 ELSE IF sentiment = "positive" THEN 1 ELSE 5
  IN 40 * T + 30 * S + 20 * N + 5 * Min(days, 10)

\* `tenths` is `hundredths` rounded to one decimal place; a value that ends
\* in exactly 5 hundredths may be rounded to either neighbour, as the double
\* sum lies just above or just below it
RoundedTo(tenths, hundredths) ==
  IF hundredths % 10 = 5
  THEN tenths \in {(hundredths - 5) \div 10, (hundredths + 5) \div 10}
  ELSE tenths = RoundDiv(hundredths, 10)

\* C18 as claimed: for the listed tiers, urgencies and sentiments and every
\* d >= 0 whole days since creation, calculate-priority returns
\* 0.4*T + 0.3*S + 0.2*N + 0.1*min(0.5*d, 5) rounded to one decimal place,
\* the age weight being min(0.5*d, 5) also for d = 0.
C18_Claimed ==
  \A id \in PriorityDone :
    KnownInputs(id) /\ DaysSince(id) >= 0 =>
      RoundedTo(PriorityOf(id),
                ExactScore(TierOf(id), SeverityOf(id), SentimentOf(id), DaysSince(id)))

\* C18: for the listed tiers, urgencies and sentiments and every d >= 0,
\* calculate-priority returns 0.4*T + 0.3*S + 0.2*N + 0.1*min(0.5*max(d, 1), 5)
\* rounded to one decimal place: an item less than a day old is scored as
\* one day old and gets the value of a day-old item; the value is a function
\* of the four inputs, and (enterprise, critical, negative, 1 day), 9.05
\* before rounding, gives 9.1.
C18_FormulaWithAgeFloor ==
  \A id \in PriorityDone :
    KnownInputs(id) /\ DaysSince(id) >= 0 =>
      /\ RoundedTo(PriorityOf(id),
                   ExactScore(TierOf(id), SeverityOf(id), SentimentOf(id),
                              Max(DaysSince(id), 1)))
      /\ PriorityOf(id) = PriorityStep(TierOf(id), SeverityOf(id), SentimentOf(id), 0,
                                       Max(DaysSince(id), 1))
      /\ TierOf(id) = "enterprise" /\ SeverityOf(id) = "critical"
           /\ SentimentOf(id) = "negative" /\ DaysSince(id) = 1
         => PriorityOf(id) = 91

\* an item scored on the day it was created gets the score of a day-old one,
\* a tenth above the claimed one
C18_Witness ==
  \E id \in PriorityDone :
    /\ TierOf(id) = "enterprise"
    /\ SeverityOf(id) = "critical"
    /\ SentimentOf(id) = "negative"
    /\ DaysSince(id) = 0
    /\ PriorityOf(id) = 91

\* C19: the age weight never exceeds 5: a score is at most the one of the
\* weights of tier, urgency and sentiment plus 0.1*5, every item 10 or more
\* days old gets the score of a 10-day-old item with the same tier, urgency
\* and sentiment, and neither the score nor the stored priority_score is
\* negative.
C19_AgeCapped ==
  /\ \A id \in PriorityDone :
       /\ PriorityOf(id) >= 0
       /\ 10 * PriorityOf(id)
            <= ExactScore(TierOf(id), SeverityOf(id), SentimentOf(id), 10) + 5
       /\ DaysSince(id) >= 10 =>
            PriorityOf(id) = PriorityStep(TierOf(id), SeverityOf(id), SentimentOf(id), 0, 10)
  /\ \A id \in DOMAIN feedback :
       feedback[id].priority_score # NULL => feedback[id].priority_score[1] >= 0

\* a 100-day-old item stored with the score of a 10-day-old one
C19_Witness ==
  \E id \in PriorityDone :
    /\ DaysSince(id) = 100
    /\ PriorityOf(id) = PriorityStep(TierOf(id), SeverityOf(id), SentimentOf(id), 0, 10)
    /\ id \in DOMAIN feedback
    /\ feedback[id].priority_score = Some(PriorityOf(id))

\* C20: calculate-priority does not fail on a tier, urgency or sentiment
\* outside its tables: the run is not errored, and the score is the formula's
\* with weight 1 for an unknown tier, 4 for an unknown urgency and 5 for an
\* unknown sentiment.
C20_DefaultWeights ==
  \A id \in DOMAIN instances :
    /\ instances[id].status # "errored"
    /\ id \in PriorityDone /\ ~KnownInputs(id) =>
         RoundedTo(PriorityOf(id),
                   ExactScore(TierOf(id), SeverityOf(id), SentimentOf(id),
                              Max(DaysSince(id), 1)))

\* a day-old item of an unknown tier, urgency and sentiment scored
\* 0.4*1 + 0.3*4 + 0.2*5 + 0.05 = 2.65, stored as 2.7
C20_Witness ==
  \E id \in PriorityDone :
    /\ TierOf(id) = "vip"
    /\ SeverityOf(id) = "blocker"
    /\ SentimentOf(id) = "mixed"
    /\ DaysSince(id) = 1
    /\ PriorityOf(id) = 27
    /\ instances[id].status = "complete"

\* ------------------------------------------------------------------------
\* Properties of rows and of imports
\* ------------------------------------------------------------------------
\* the annual revenue the specification gives a stored tier
ArrOfTier(tier) ==
  IF tier = "enterprise" THEN 50000 ELSE IF tier = "pro" THEN 5000 ELSE 0

\* C21: arr_estimate is fixed at creation: for a row created by the import
\* or by POST /api/feedback it is 50000 for the normalized tier enterprise,
\* 5000 for pro and 0 for free or any other tier, the tier being the one the
\* run was created with, and the row has that value before and after
\* store-results.
C21_ArrFixedAtCreation ==
  \A id \in DOMAIN feedback :
    /\ feedback[id].arr_estimate = ArrOfTier(feedback[id].customer_tier)
    /\ id \in DOMAIN instances =>
         feedback[id].arr_estimate = ArrOfTier(instances[id].payload.customer_tier)

\* an imported row whose tier cell is " Enterprise ", after store-results
C21_Witness ==
  \E id \in DOMAIN feedback :
    /\ feedback[id].source = "support"
    /\ feedback[id].customer_tier = "enterprise"
    /\ feedback[id].arr_estimate = 50000
    /\ feedback[id].processed_at # NULL
    /\ instances[id].status = "complete"

\* a call is about to return, none of its fetch, SELECT, INSERT or create
\* calls failed, and the table has not been cleared since it began
QuietCall(p) ==
  /\ imports[p].pc = "return"
  /\ NoFailedCall(imports[p].caught)
  /\ imports[p].clearsAtStart = clears

\* the first cells of the rows the import must skip: the header rows, the
\* rows of fewer than 3 cells, the rows whose first cell is blank
SkippedContents ==
  UNION {{Spreadsheet[sheetName][i][1] :
            i \in {k \in 1..Len(Spreadsheet[sheetName]) :
                     k = 1 \/ Len(Spreadsheet[sheetName][k]) < 3
                           \/ Trim(Spreadsheet[sheetName][k][1]) = ""}} :
         sheetName \in Range(SheetNames)}

\* no row and no run for a row the import skips
SkippedNeverStored ==
  /\ \A id \in DOMAIN feedback :
       feedback[id].content_hash \notin {hashContent(content) : content \in SkippedContents}
  /\ \A id \in DOMAIN instances :
       instances[id].payload.content \notin {Trim(content) : content \in SkippedContents}

\* C22: the import inserts no row and creates no run for a header row, a row
\* of fewer than 3 cells or a row with a blank first cell, and when a call
\* returns every other row's fingerprint is stored.
C22_SkipsOnlyThose ==
  /\ SkippedNeverStored
  /\ \A p \in Importers :
       QuietCall(p) => \A content \in ValidContents : StoredTimes(content) >= 1

\* the part of C22 about the rows that are skipped, and about the rows
\* before the first unparseable timestamp of their sheet
C22_SkippedRows ==
  /\ SkippedNeverStored
  /\ \A p \in Importers :
       QuietCall(p) => \A content \in {PaddedText, DownText} : StoredTimes(content) >= 1

\* the step is a failed fetchSheetData of call p
FetchFailed(p) ==
  /\ imports[p].pc = "fetch"
  /\ imports'[p].caught = Append(imports[p].caught, "fetch")

\* C23: a failed fetch of one sheet is isolated to its source: the call
\* reports 0 for that source and goes on with the next sheet in the state it
\* would be in had the sheet been fetched and found empty, no row and no run
\* is touched, and the call returns normally: it reports a count for every
\* source, and POST /api/import answers 200.
C23_FetchFailureIsolated ==
  [][\A p \in Importers :
       /\ FetchFailed(p) =>
            /\ [imports'[p] EXCEPT !.caught = imports[p].caught]
                 = Continue(imports[p], <<>>)
            /\ imports'[p].results[SHEET_SOURCES(SheetNames[imports[p].sheet])] = 0
            /\ imports'[p].pc = IF imports[p].sheet < Len(SheetNames)
                                THEN "fetch" ELSE "return"
            /\ feedback' = feedback
            /\ instances' = instances
       /\ imports[p].pc = "return" /\ imports'[p].pc = "idle" =>
            /\ DOMAIN imports[p].results
                 = {SHEET_SOURCES(SheetNames[i]) : i \in 1..Len(SheetNames)}
            /\ imports[p].trigger = "POST /api/import" =>
                 /\ reply'.status = 200
                 /\ reply'.sources = imports[p].results]_vars

\* POST /api/import answers 200 with rows imported after the fetch of a
\* sheet before them had failed
C23_Witness ==
  /\ reply.route = "POST /api/import"
  /\ reply.status = 200
  /\ reply.imported >= 1
  /\ reply.sources["support"] = 0
  /\ reply.sources["discord"] = 1
  /\ finished # <<>>
  /\ finished[Len(finished)].caught = <<"fetch", "date">>

\* the rows of the table that came from source sourceName
RowsOf(sourceName) == {id \in DOMAIN feedback : feedback[id].source = sourceName}

RECURSIVE SumOver(_, _)
SumOver(results, n) ==
  IF n = 0 THEN 0 ELSE results[SHEET_SOURCES(SheetNames[n])] + SumOver(results, n - 1)

\* call p is about to return, no other call of importFromSheets has begun
\* and the table has not been cleared since p began: the rows of the sheets'
\* sources are the rows p inserted
OnlyCall(p) ==
  /\ imports[p].pc = "return"
  /\ ImportsBegun = 1
  /\ imports[p].clearsAtStart = clears

\* C24: the count importFromSheets returns for a source is the number of
\* rows it inserted for that source, and the total it returns is the sum of
\* the counts of the sources, also when an error ended a sheet after some of
\* its rows were inserted.
C24_CountsAreInserts ==
  \A p \in Importers :
    OnlyCall(p) =>
      /\ \A n \in 1..Len(SheetNames) :
           imports[p].results[SHEET_SOURCES(SheetNames[n])]
             = Cardinality(RowsOf(SHEET_SOURCES(SheetNames[n])))
      /\ imports[p].totalImported = SumOver(imports[p].results, Len(SheetNames))

\* the part of C24 that holds: no count exceeds the rows inserted for its
\* source, the sum of the counts does not exceed the total, nor the total
\* the rows inserted
C24_CountsWithoutError ==
  \A p \in Importers :
    OnlyCall(p) =>
      /\ \A n \in 1..Len(SheetNames) :
           imports[p].results[SHEET_SOURCES(SheetNames[n])]
             <= Cardinality(RowsOf(SHEET_SOURCES(SheetNames[n])))
      /\ SumOver(imports[p].results, Len(SheetNames)) <= imports[p].totalImported
      /\ imports[p].totalImported <= imports[p].inserted

\* the handler that inserted row id is still at its env.MY_WORKFLOW.create
CreatePending(id) ==
  \/ id \in DOMAIN requests
  \/ \E p \in Importers : imports[p].pc = "create" /\ imports[p].id = id

\* a run exists only for a row that was inserted, under the row's id
RunsOnlyForRows ==
  \A id \in DOMAIN instances :
    /\ instances[id].payload.id = id
    /\ id \in DOMAIN feedback \cup cleared
    /\ id \in DOMAIN feedback =>
         /\ instances[id].payload.content = feedback[id].content
         /\ instances[id].payload.source = feedback[id].source

\* C25: rows are fed to the pipeline exactly once: a run is created only for
\* a row that was inserted, with the row's id as its payload id, and once
\* the import has run again after an earlier import returned, every stored
\* row whose handler is past its create call has its run, also when a create
\* call failed.
C25_ExactlyOneRun ==
  /\ RunsOnlyForRows
  /\ \A p \in Importers :
       /\ imports[p].pc = "return"
       /\ imports[p].first # NULL
       /\ imports[p].first[1].clearsAtStart = clears
       => \A id \in DOMAIN feedback : CreatePending(id) \/ id \in DOMAIN instances

\* the part of C25 that holds: a run only for an inserted row, and never
\* more runs than rows inserted
C25_NoRunWithoutRow ==
  /\ RunsOnlyForRows
  /\ Cardinality(DOMAIN instances) <= nextId

\* the call caught a failed SELECT or INSERT
CaughtStorageError(call) ==
  \E i \in 1..Len(call.caught) : call.caught[i] \in {"select", "insert"}

\* the step answers a POST /api/feedback whose INSERT stored nothing
PostInsertFailed ==
  /\ reply'.route = "POST /api/feedback"
  /\ feedback' = feedback
  /\ requests' = requests
  /\ instances' = instances

\* C26: a storage error is propagated: when a SELECT or an INSERT failed
\* inside importFromSheets, POST /api/import does not answer with success
\* but with an error, and a failed INSERT of POST /api/feedback is answered
\* with an error.
C26_StorageErrorsPropagate ==
  [][/\ \A p \in Importers :
          /\ imports[p].pc = "return"
          /\ imports'[p].pc = "idle"
          /\ imports[p].trigger = "POST /api/import"
          /\ CaughtStorageError(imports[p])
          => reply'.status >= 400
     /\ PostInsertFailed => reply'.status = 500]_vars

\* the part of C26 about POST /api/feedback
C26_PostInsertErrors ==
  [][PostInsertFailed => reply'.status = 500 /\ nextId' = nextId]_vars

\* C27: while SPREADSHEET_ID or SHEETS_API_KEY is unset no import is
\* attempted: no call of importFromSheets begins, so no sheet is fetched, no
\* row of a sheet is stored and no run for one is created; POST /api/import
\* answers 400 and the scheduled entry point returns without a response.
C27_NoImportUnconfigured ==
  env.SPREADSHEET_ID = "" \/ env.SHEETS_API_KEY = "" =>
    /\ \A p \in Importers : imports[p] = Idle
    /\ finished = <<>>
    /\ \A id \in DOMAIN feedback : feedback[id].source = "manual"
    /\ \A id \in DOMAIN instances : instances[id].payload.source = "manual"
    /\ reply.route = "POST /api/import" => reply.status = 400 /\ reply.imported = 0

\* POST /api/import answered 400 with only the key unset, a posted row stored
C27_Witness ==
  /\ env.SPREADSHEET_ID # ""
  /\ env.SHEETS_API_KEY = ""
  /\ reply = Reply("POST /api/import", 400)
  /\ feedback # <<>>

\* ------------------------------------------------------------------------
\* Properties of the stored summary
\* ------------------------------------------------------------------------
\* the rows of the runs that have returned
Completed ==
  {id \in DOMAIN instances \cap DOMAIN feedback : instances[id].status = "complete"}

\* C28: the summary a completed run has stored is never empty, whatever the
\* provider did: threw, answered without a response, with an empty response
\* or with a response of white space only.
C28_SummaryNeverEmpty ==
  \A id \in Completed :
    /\ feedback[id].summary # NULL
    /\ feedback[id].summary[1] # ""

\* the part of C28 about a provider that throws or answers without a
\* response field: the stored summary is the start of the content and "..."
C28_SummaryOnError ==
  \A id \in Completed :
    instances[id].answers["generate-summary"] \in {Some(ProviderError), Some(ProviderMissing)}
      => feedback[id].summary
           = Some(Substring(feedback[id].content, 80) \o "...")

\* ------------------------------------------------------------------------
\* Properties of the fingerprint
\* ------------------------------------------------------------------------
\* C29: for every stored row, content_hash is the fingerprint of the row's
\* stored content, for rows of the import and rows of POST /api/feedback.
C29_HashOfStoredContent ==
  \A id \in DOMAIN feedback :
    feedback[id].content_hash = hashContent(feedback[id].content)

\* the part of C29 that holds: rows of POST /api/feedback, and rows of the
\* import up to the white space around the cell
C29_HashOfSubmittedContent ==
  \A id \in DOMAIN feedback :
    /\ feedback[id].source = "manual" =>
         feedback[id].content_hash = hashContent(feedback[id].content)
    /\ \E content \in ValidContents \cup {body.content : body \in ImportPostBodies} :
         /\ feedback[id].content_hash = hashContent(content)
         /\ feedback[id].content =
              IF feedback[id].source = "manual" THEN content ELSE Trim(content)

\* C30: no two stored rows have the same stored content, also for sheet
\* cells that differ only by white space at their ends.
C30_UniqueContent ==
  \A i, j \in DOMAIN feedback :
    feedback[i].content = feedback[j].content => i = j

\* the part of C30 that holds: no two stored rows were made from the same
\* text, character for character
C30_UniqueRawContent ==
  \A i, j \in DOMAIN feedback :
    i # j => feedback[i].content_hash # feedback[j].content_hash
             /\ (feedback[i].content = feedback[j].content =>
                   \E k \in {i, j} : feedback[k].content_hash # hashContent(feedback[k].content))

\* ------------------------------------------------------------------------
\* Properties of POST /api/feedback and of the theme step
\* ------------------------------------------------------------------------
\* C31: a POST /api/feedback whose content has a fingerprint that is already
\* stored is answered with an error (500) and changes nothing: no row is
\* added or modified, no run is created and none is left to create.
C31_DuplicatePostRejected ==
  [][\A body \in ImportPostBodies :
       /\ Existing(feedback, hashContent(body.content))
       /\ PostFeedback(body) \/ PostFeedbackRejected(body)
       => /\ reply'.route = "POST /api/feedback"
          /\ reply'.status = 500
          /\ feedback' = feedback
          /\ instances' = instances
          /\ requests' = requests
          /\ nextId' = nextId]_vars

\* the import has stored the text, nothing was posted or cleared before, and
\* a POST has just been answered 500
C31_Witness ==
  /\ reply = Reply("POST /api/feedback", 500)
  /\ clears = 0
  /\ \E id \in DOMAIN feedback :
       /\ feedback[id].source = "github"
       /\ \E body \in ImportPostBodies : feedback[id].content_hash = hashContent(body.content)
  /\ \A id \in DOMAIN feedback : feedback[id].source # "manual"

\* the taxonomy in the order the specification declares it
DeclaredThemes ==
  <<"documentation", "reliability", "performance", "dx",
    "pricing", "features", "support", "security">>

\* the lower-cased text contains a keyword of the n-th declared theme
ThemeMatched(content, n) ==
  \E kw \in THEME_KEYWORDS(DeclaredThemes[n]) : Includes(ToLowerCase(content), kw)

HasThemeKeyword(content) == \E n \in 1..Len(DeclaredThemes) : ThemeMatched(content, n)

\* C32: extract-themes is keyword-first: the step has called the provider
\* (once) exactly when the lower-cased text contains no keyword of any theme;
\* with a keyword in the text there is no provider call and the result is the
\* same whatever the provider would have answered.
C32_KeywordFirst ==
  \A id \in ThemesDone :
    LET content == instances[id].payload.content
        calls == instances[id].calls["extract-themes"]
    IN /\ calls = IF HasThemeKeyword(content) THEN 0 ELSE 1
       /\ HasThemeKeyword(content) =>
            /\ instances[id].answers["extract-themes"] = NULL
            /\ \A n \in 1..Len(ThemesOf(id)) : ThemesOf(id)[n] # "general"
            /\ \A resp \in ThemeResponses : ThemesStep(content, resp) = ThemesOf(id)

\* a text with keywords of a theme whose theme step called no provider
C32_Witness ==
  \E id \in ThemesDone :
    /\ HasThemeKeyword(instances[id].payload.content)
    /\ instances[id].calls["extract-themes"] = 0
    /\ ThemesOf(id) = <<"performance">>

\* how many of the first n declared themes the text matches
RECURSIVE MatchedUpTo(_, _)
MatchedUpTo(content, n) ==
  IF n = 0 THEN 0
  ELSE MatchedUpTo(content, n - 1) + (IF ThemeMatched(content, n) THEN 1 ELSE 0)

\* C33: on the keyword path extract-themes returns the matched themes in
\* declaration order without duplicates, cut to the first three: its k-th
\* tag is the k-th declared theme that has a keyword in the text.
C33_DeclarationOrder ==
  \A id \in ThemesDone :
    LET content == instances[id].payload.content
        themes == ThemesOf(id)
    IN HasThemeKeyword(content) =>
         /\ Len(themes) = Min(3, MatchedUpTo(content, Len(DeclaredThemes)))
         /\ \A k \in 1..Len(themes) :
              \E n \in 1..Len(DeclaredThemes) :
                /\ themes[k] = DeclaredThemes[n]
                /\ ThemeMatched(content, n)
                /\ MatchedUpTo(content, n) = k

\* a text that names documentation, performance, pricing, reliability,
\* features and support in that order is tagged with the first three of the
\* declaration order
C33_Witness ==
  \E id \in ThemesDone :
    /\ instances[id].payload.content = ManyText
    /\ ThemesOf(id) = <<"documentation", "reliability", "performance">>

\* ------------------------------------------------------------------------
\* Properties of runs in flight together
\* ------------------------------------------------------------------------
\* the columns a row gets at creation, arr_estimate apart
Creation(row) ==
  [id |-> row.id, source |-> row.source, content |-> row.content,
   content_hash |-> row.content_hash, author |-> row.author,
   customer_tier |-> row.customer_tier, created_at |-> row.created_at]

\* C34: the UPDATE of store-results of a run changes only the row whose id
\* is the payload's id, and of that row neither id, source, content,
\* content_hash, author, customer_tier nor created_at; every other row is
\* left as it was, and no row is added or removed.
C34_StoreChangesOwnRowOnly ==
  [][\A id \in DOMAIN instances :
       instances'[id].writes # instances[id].writes =>
         /\ DOMAIN feedback' = DOMAIN feedback
         /\ \A other \in DOMAIN feedback :
              IF other = instances[id].payload.id
              THEN Creation(feedback'[other]) = Creation(feedback[other])
              ELSE feedback'[other] = feedback[other]]_vars

\* one run has stored its results, the row of the other run, still in
\* flight, has none
C34_Witness ==
  \E id, other \in DOMAIN instances \cap DOMAIN feedback :
    /\ instances[id].writes = 1
    /\ feedback[id].processed_at # NULL
    /\ instances[other].writes = 0
    /\ instances[other].done["analyze-sentiment"] # NULL
    /\ feedback[other].processed_at = NULL
    /\ feedback[other].sentiment = NULL

SentimentDone(id) == instances[id].done["analyze-sentiment"] # NULL
SentimentResult(id) == Result(instances[id], "analyze-sentiment")

\* C36: the sentiment step returns a label among positive, negative and
\* neutral with a score whose sign agrees with it: at least 0 when positive,
\* at most 0 when negative, 0 when neutral, whatever the provider answered.
C36_SignAgreesWithLabel ==
  \A id \in DOMAIN instances :
    SentimentDone(id) =>
      /\ SentimentResult(id).sentiment \in {"positive", "negative", "neutral"}
      /\ SentimentResult(id).sentiment = "positive" => SentimentResult(id).score >= 0
      /\ SentimentResult(id).sentiment = "negative" => SentimentResult(id).score <= 0
      /\ SentimentResult(id).sentiment = "neutral" => SentimentResult(id).score = 0

\* what holds: the label is one of the three, the score of a positive
\* label is at least 0 and of any other label at most 0, and neutral comes
\* with 0 when the call failed
C36_NeverAbovePositive ==
  \A id \in DOMAIN instances :
    SentimentDone(id) =>
      /\ SentimentResult(id).sentiment \in {"positive", "negative", "neutral"}
      /\ SentimentResult(id).sentiment = "positive" => SentimentResult(id).score >= 0
      /\ SentimentResult(id).sentiment # "positive" => SentimentResult(id).score <= 0
      /\ instances[id].answers["analyze-sentiment"] = Some(ProviderError)
           => SentimentResult(id) = [sentiment |-> "neutral", score |-> 0]

\* an answer without label, confidence 0.7: neutral with score -0.70
C36_NeutralWithScore ==
  \E id \in DOMAIN instances :
    /\ SentimentDone(id)
    /\ instances[id].answers["analyze-sentiment"] = Some(LabelAnswer("", 700))
    /\ SentimentResult(id) = [sentiment |-> "neutral", score |-> 0 - 70]

\* ------------------------------------------------------------------------
\* Properties of POST /api/clear
\* ------------------------------------------------------------------------
\* C37: POST /api/clear removes every row, and the store-results of a run
\* that was in flight when the table was cleared leaves the table as it
\* was, without a row for the run's id: no row a clear deleted is ever in
\* the table again.
C37_ClearedRowsStayGone ==
  [][/\ clears' # clears => feedback' = <<>>
     /\ \A id \in DOMAIN instances :
          id \in cleared /\ instances'[id].writes # instances[id].writes
            => feedback' = feedback /\ id \notin DOMAIN feedback'
     /\ cleared' \cap DOMAIN feedback' = {}]_vars

\* the row of a run was cleared while the run was in flight; the UPDATE of
\* its store-results has since run, changed no row, and the run returned
C37_Witness ==
  \E id \in cleared :
    /\ id \in DOMAIN instances
    /\ instances[id].status = "complete"
    /\ instances[id].writes = 1
    /\ instances[id].changes = 0
    /\ feedback = <<>>

\* ------------------------------------------------------------------------
\* Properties of a row that cannot be processed
\* ------------------------------------------------------------------------
\* the first cells of the rows the import does not skip and whose timestamp
\* cell, if any, is a date
GoodContents ==
  UNION {{Sliced(Spreadsheet[sheetName])[i][1] :
            i \in {k \in 1..Len(Sliced(Spreadsheet[sheetName])) :
                     /\ ~Skipped(Sliced(Spreadsheet[sheetName])[k])
                     /\ ~BadDate(Sliced(Spreadsheet[sheetName])[k])}} :
         sheetName \in Range(SheetNames)}

\* C38: a row that cannot be processed affects only itself: when a call
\* returns in which nothing failed but rows with an unparseable timestamp,
\* every other row that is not skipped is stored.
C38_BadRowAffectsOnlyItself ==
  \A p \in Importers :
    QuietCall(p) => \A content \in GoodContents : StoredTimes(content) >= 1

\* a call returns after the row with the timestamp "soon" threw: the row
\* after it, whose timestamp is a date, is not stored
C38_RowAfterBadRowLost ==
  \E p \in Importers :
    /\ QuietCall(p)
    /\ imports[p].caught = <<"date">>
    /\ PlainText \in GoodContents
    /\ StoredTimes(PlainText) = 0
    /\ StoredTimes(DownText) = 1

\* ------------------------------------------------------------------------
\* Properties of imports running together
\* ------------------------------------------------------------------------
\* the runs created for a stored row with the fingerprint of `content`
RunsFor(content) ==
  {id \in DOMAIN instances \cap DOMAIN feedback :
     feedback[id].content_hash = hashContent(content)}

\* the calls of importFromSheets that stand at env.MY_WORKFLOW.create for a
\* row with the fingerprint of `content`, their row not cleared since
CreatingFor(content) ==
  {p \in Importers :
     /\ imports[p].pc = "create"
     /\ imports[p].id \notin cleared
     /\ hashContent(Head(imports[p].rows)[1]) = hashContent(content)}

\* C39: with two calls of importFromSheets running over the same sheets at
\* once, in every interleaving of their SELECT, INSERT and create calls, at
\* most one row is stored for the fingerprint of a sheet row, and at most
\* one run is created or about to be created for it.
C39_OneRowOneRun ==
  \A content \in ValidContents :
    /\ StoredTimes(content) <= 1
    /\ Cardinality(RunsFor(content)) + Cardinality(CreatingFor(content)) <= 1

\* both calls found no row for the same sheet row; one has inserted it and
\* created its run, the INSERT of the other was rejected
C39_Witness ==
  \E p, q \in Importers :
    /\ p # q
    /\ clears = 0
    /\ imports[p].enqueued >= 1
    /\ imports[q].pc # "idle"
    /\ imports[q].caught = <<"insert">>
    /\ imports[q].inserted = 0
    /\ Cardinality(RunsFor(PaddedText)) = 1
    /\ StoredTimes(PaddedText) = 1

=============================================================================
